---- MODULE Spec2Model ----
(***************************************************************************)
(* A model of the VoidMic signal-conditioning core:                        *)
(*   crates/core/src/processor.rs      NoiseFloorTracker, ThreeBandEq,     *)
(*                                     LookaheadLimiter, VoidProcessor     *)
(*   crates/core/src/frame_adapter.rs  FrameAdapter                        *)
(*   crates/core/src/echo_cancel.rs    EchoCanceller                       *)
(*   crates/app/src/gui/{controls,app}.rs  the control surface's stores    *)
(*                                                                         *)
(* Numbers.  f32 samples, levels and gains are fixed-point integers in     *)
(* units of 1/Scale (Scale = 10^4): 0.015 is 150, 0.99 is 9900, 1.0 is     *)
(* Scale.  A product of two such values is divided by Scale (Mul).  EQ     *)
(* gains in dB are integers in units of 0.001 dB.  Counters (u32, usize)   *)
(* are integers.                                                           *)
(*                                                                         *)
(* Frames.  A frame is a sequence of samples; index j of the source        *)
(* (0-based) is index j+1 here.  The source fixes the sample rate at 48    *)
(* samples per millisecond (SAMPLE_RATE = 48000, FRAME_SIZE = 480, the     *)
(* crossfade literal 480); the code reads these only as SAMPLE_RATE /      *)
(* 1000, as the 10 ms frame and as their quotient, so the model keeps the  *)
(* three in that proportion and takes the samples per millisecond as its   *)
(* bound SamplesPerMs.  Every quantity counted in frames (the 21 frames    *)
(* of the release, the 300 frames of a calibration run, the 300-entry      *)
(* noise-floor window) has the source's value.                             *)
(*                                                                         *)
(* Third-party engines (RNNoise denoiser, WebRTC VAD, AEC3) are not part   *)
(* of the repository: each call's outcome is an input of the action,       *)
(* drawn from a small set of outcomes.                                     *)
(***************************************************************************)
EXTENDS Integers, Sequences, FiniteSets, TLC

(* ------------------------------------------------------------------ *)
(* Program constants                                                  *)
(* ------------------------------------------------------------------ *)
\* samples per millisecond (48 in the source)
SamplesPerMs == 1

\* pub const SAMPLE_RATE: u32 = 48000: 1000 ms of samples
SAMPLE_RATE == 1000 * SamplesPerMs
\* pub const FRAME_SIZE: usize = 480: 10 ms of samples
FRAME_SIZE == 10 * SamplesPerMs
ATTACK_MS == 5
RELEASE_MS == 200
FADE_MS == 10

\* fixed-point resolution of the model: 1.0
Scale == 100 * 100

\* let crossfade_len = 480; // 10ms
crossfade_len == 10 * SamplesPerMs
\* f32 literals of the source, in units of 1/Scale
CLAMP_LIMIT == 9900
DEFAULT_GATE_THRESHOLD == 150
CALIBRATION_FLOOR == 50
CALIBRATION_FACTOR == 12000
AGC_TARGET_EPSILON == 100
AGC_SILENCE_RMS == 1
AGC_MAX_GAIN == 30000
AGC_DECAY_STEP == 10
ATTACK_COEFF == 1000
RELEASE_COEFF == 50
INITIAL_FLOOR == 100
FLOOR_MIN_RMS == 1
FLOOR_KEEP == 9500
FLOOR_NEW == 500
DYN_FACTOR == 15000
DYN_OFFSET == 30
DYN_MIN == 50
DYN_MAX == 800
\* (new - current).abs() > 0.01, gains in 0.001 dB
EQ_EPSILON == 10
\* NoiseFloorTracker: window length, warm-up count, recent window
FLOOR_WINDOW == 300
FLOOR_WARMUP == 10
FLOOR_RECENT == 30
\* spectrum throttle: every 4th frame; crossbeam_channel::bounded(2)
SPECTRUM_EVERY == 4
SPECTRUM_CAP == 2

(* ------------------------------------------------------------------ *)
(* Bounds of the model                                                *)
(* ------------------------------------------------------------------ *)
\* largest channel count a processor is constructed with
MaxChannels == 2
\* longest run of consecutive loud frames the environment feeds
MaxLoudRun == 3
\* frames one limiter is driven through
MaxLimFrames == 3
\* the valid call of a calibration run after which bypass is toggled
MaxToggleCall == 2
\* whole frames handed to one push
MaxPushFrames == 5
\* frames an echo-cancellation engine is followed through
MaxAecFrames == 2

(* ------------------------------------------------------------------ *)
(* Fixed-point arithmetic                                             *)
(* ------------------------------------------------------------------ *)
Abs(x) == IF x < 0 THEN -x ELSE x
Min(a, b) == IF a < b THEN a ELSE b
Max(a, b) == IF a > b THEN a ELSE b
Clamp(x, lo, hi) == IF x < lo THEN lo ELSE IF x > hi THEN hi ELSE x

\* a local binding (let v = e) whose value is computed once
Only(S) == CHOOSE v \in S : TRUE
Let(e, Body(_)) == Only({Body(v) : v \in {e}})

\* a * b for two values in units of 1/Scale (rounds toward zero)
Mul(a, b) ==
    LET m == Abs(a) * Abs(b)
    IN  IF (a < 0) = (b < 0) THEN m \div Scale ELSE -(m \div Scale)

\* a.mul_add(b, c) = a * b + c
MulAdd(a, b, c) == Mul(a, b) + c

\* a / b for two values in units of 1/Scale, b > 0
Div(a, b) == (a * Scale) \div b

\* largest r in lo..hi with r * r <= n (lo * lo <= n assumed)
RECURSIVE ISqrtIn(_, _, _)
ISqrtIn(n, lo, hi) ==
    IF lo >= hi THEN lo
    ELSE LET mid == (lo + hi + 1) \div 2
         IN  IF mid * mid <= n THEN ISqrtIn(n, mid, hi)
             ELSE ISqrtIn(n, lo, mid - 1)

\* floor of the square root, for n < 46340^2
ISqrt(n) == ISqrtIn(n, 0, 46340)

\* sum of f[lo..hi], by halving (keeps the evaluation shallow)
RECURSIVE SumRange(_, _, _)
SumRange(f, lo, hi) ==
    IF lo > hi THEN 0
    ELSE IF lo = hi THEN f[lo]
    ELSE LET mid == (lo + hi) \div 2
         IN  SumRange(f, lo, mid) + SumRange(f, mid + 1, hi)

\* (sum / len).sqrt() over the squares of a frame, in units of 1/Scale.
\* The mean of the squares is accumulated as quotients and remainders of
\* len so that no intermediate value leaves the integer range.
Rms(frame) ==
    LET n == Len(frame)
        q == [j \in 1..n |-> (frame[j] * frame[j]) \div n]
        r == [j \in 1..n |-> (frame[j] * frame[j]) % n]
    IN  IF n = 0 THEN 0
        ELSE ISqrt(SumRange(q, 1, n) + (SumRange(r, 1, n) \div n))

(* ------------------------------------------------------------------ *)
(* Frames                                                             *)
(* ------------------------------------------------------------------ *)
ConstFrame(v) == [j \in 1..FRAME_SIZE |-> v]
ZeroFrame == ConstFrame(0)
\* input of test_bypass_passes_through: (i / FRAME_SIZE) * 0.5
RampFrame == [j \in 1..FRAME_SIZE |-> ((j - 1) * (Scale \div 2)) \div FRAME_SIZE]
\* input of test_gate_closes_on_silence: 0.3
LoudFrame == ConstFrame(3000)
\* a level below the default gate threshold: 0.01
QuietFrame == ConstFrame(100)
\* what an output buffer holds before a call (test_channel_mismatch: 0.5)
StaleFrame == ConstFrame(5000)

IsZero(frame) == \A j \in 1..Len(frame) : frame[j] = 0

(* ------------------------------------------------------------------ *)
(* NoiseFloorTracker                                                  *)
(* ------------------------------------------------------------------ *)
\* NoiseFloorTracker::new; window[i] of the source is window[i + 1]
NoiseFloorTracker_new ==
    [window |-> [i \in 1..FLOOR_WINDOW |-> 0], write_idx |-> 0, count |-> 0,
     current_floor |-> INITIAL_FLOOR]

\* a minimum search that always starts at index 0
FloorReadIdx_FromStart(write_idx, count) ==
    {i % FLOOR_WINDOW : i \in 0..(Min(FLOOR_RECENT, count) - 1)}

\* the indices read by the minimum search of update, after the write
FloorReadIdx(write_idx, count) ==
    LET start == IF count >= FLOOR_RECENT
                 THEN (write_idx + FLOOR_WINDOW - FLOOR_RECENT) % FLOOR_WINDOW
                 ELSE 0
    IN  {(start + i) % FLOOR_WINDOW : i \in 0..(Min(FLOOR_RECENT, count) - 1)}

\* an update that blends a tenth of the minimum into an undiminished floor
NoiseFloorTracker_update_Heavy(t, rms) ==
    LET window == [t.window EXCEPT ![t.write_idx + 1] = rms]
        write_idx == (t.write_idx + 1) % FLOOR_WINDOW
        count == IF t.count < FLOOR_WINDOW THEN t.count + 1 ELSE t.count
        cand == {window[i + 1] : i \in FloorReadIdx(write_idx, count)}
        live == {v \in cand : v > FLOOR_MIN_RMS}
        min_val == CHOOSE v \in live : \A w \in live : v <= w
    IN  [window |-> window, write_idx |-> write_idx, count |-> count,
         current_floor |->
            IF count >= FLOOR_WARMUP /\ live # {}
            THEN t.current_floor + Mul(min_val, 2 * FLOOR_NEW)
            ELSE t.current_floor]

\* an update that takes the minimum over near-zero values as well
NoiseFloorTracker_update_BlendsZero(t, rms) ==
    LET window == [t.window EXCEPT ![t.write_idx + 1] = rms]
        write_idx == (t.write_idx + 1) % FLOOR_WINDOW
        count == IF t.count < FLOOR_WINDOW THEN t.count + 1 ELSE t.count
        cand == {window[i + 1] : i \in FloorReadIdx(write_idx, count)}
        min_val == CHOOSE v \in cand : \A w \in cand : v <= w
    IN  [window |-> window, write_idx |-> write_idx, count |-> count,
         current_floor |->
            IF count >= FLOOR_WARMUP
            THEN MulAdd(t.current_floor, FLOOR_KEEP, Mul(min_val, FLOOR_NEW))
            ELSE t.current_floor]

\* NoiseFloorTracker::update
NoiseFloorTracker_update(t, rms) ==
    LET window == [t.window EXCEPT ![t.write_idx + 1] = rms]
        write_idx == (t.write_idx + 1) % FLOOR_WINDOW
        count == IF t.count < FLOOR_WINDOW THEN t.count + 1 ELSE t.count
        cand == {window[i + 1] : i \in FloorReadIdx(write_idx, count)}
        live == {v \in cand : v > FLOOR_MIN_RMS}
        min_val == CHOOSE v \in live : \A w \in live : v <= w
    IN  [window |-> window, write_idx |-> write_idx, count |-> count,
         current_floor |->
            IF count >= FLOOR_WARMUP /\ live # {}
            THEN MulAdd(t.current_floor, FLOOR_KEEP, Mul(min_val, FLOOR_NEW))
            ELSE t.current_floor]

(* ------------------------------------------------------------------ *)
(* ThreeBandEq                                                        *)
(* ------------------------------------------------------------------ *)
\* Coefficients::<f32>::from_params for the three filter types at the
\* source's frequencies and Q, normalised by a0, in units of 1/Scale
\* (RBJ shelf and peaking formulas), for the gains the model writes:
\* 0 dB, 0.005 dB and 3 dB.
Coeffs(b0, b1, b2, a1, a2) == [b0 |-> b0, b1 |-> b1, b2 |-> b2, a1 |-> a1, a2 |-> a2]

LowShelfCoeffs(db) ==
    CASE db = 0    -> Coeffs(10000, -19630, 9636, -19630, 9636)
      [] db = 5    -> Coeffs(10000, -19630, 9636, -19630, 9637)
      [] OTHER     -> Coeffs(10032, -19659, 9635, -19660, 9666)

PeakingCoeffs(db) ==
    CASE db = 0    -> Coeffs(10000, -18614, 8775, -18614, 8775)
      [] db = 5    -> Coeffs(10000, -18614, 8775, -18614, 8775)
      [] OTHER     -> Coeffs(10215, -18797, 8744, -18797, 8959)

HighShelfCoeffs(db) ==
    CASE db = 0    -> Coeffs(10000, -12796, 4775, -12796, 4775)
      [] db = 5    -> Coeffs(10005, -12803, 4778, -12795, 4775)
      [] OTHER     -> Coeffs(13273, -17714, 6719, -12208, 4486)

\* DirectForm2Transposed::new(coeffs): the delay line at rest
Biquad_new(c) == [c |-> c, s1 |-> 0, s2 |-> 0]

\* ThreeBandEq::new
ThreeBandEq_new(low, mid, high) ==
    [low_shelf |-> Biquad_new(LowShelfCoeffs(low)),
     peaking |-> Biquad_new(PeakingCoeffs(mid)),
     high_shelf |-> Biquad_new(HighShelfCoeffs(high))]

\* ThreeBandEq::update_gains: update_coefficients keeps the delay line
ThreeBandEq_update_gains(eq, low, mid, high) ==
    [low_shelf |-> [eq.low_shelf EXCEPT !.c = LowShelfCoeffs(low)],
     peaking |-> [eq.peaking EXCEPT !.c = PeakingCoeffs(mid)],
     high_shelf |-> [eq.high_shelf EXCEPT !.c = HighShelfCoeffs(high)]]

\* one DirectForm2Transposed::run step: the output and the new delay line
BiquadStep(b, x) ==
    LET y == Mul(b.c.b0, x) + b.s1
    IN  [y |-> y,
         b |-> [b EXCEPT !.s1 = Mul(b.c.b1, x) - Mul(b.c.a1, y) + b.s2,
                         !.s2 = Mul(b.c.b2, x) - Mul(b.c.a2, y)]]

RECURSIVE BiquadRunFrom(_, _, _, _)
BiquadRunFrom(b, frame, j, acc) ==
    IF j > Len(frame) THEN [b |-> b, frame |-> acc]
    ELSE LET st == BiquadStep(b, frame[j])
         IN  BiquadRunFrom(st.b, frame, j + 1, Append(acc, st.y))

\* a filter whose numerator equals its denominator, at rest, returns its
\* input and stays at rest; any filter at rest maps silence to silence
BiquadTransparent(b, frame) ==
    /\ b.s1 = 0
    /\ b.s2 = 0
    /\ \/ b.c.b0 = Scale /\ b.c.b1 = b.c.a1 /\ b.c.b2 = b.c.a2
       \/ IsZero(frame)

\* run over a whole frame
BiquadRun(b, frame) ==
    IF BiquadTransparent(b, frame) THEN [b |-> b, frame |-> frame]
    ELSE BiquadRunFrom(b, frame, 1, <<>>)

\* ThreeBandEq::process applied to every sample of a frame in order.  Each
\* stage reads only the earlier stage's output for the same and earlier
\* samples, so the cascade is run stage by stage.
ThreeBandEq_process(eq, frame) ==
    LET l == BiquadRun(eq.low_shelf, frame)
        m == BiquadRun(eq.peaking, l.frame)
        h == BiquadRun(eq.high_shelf, m.frame)
    IN  [eq |-> [low_shelf |-> l.b, peaking |-> m.b, high_shelf |-> h.b],
         frame |-> h.frame]

(* ------------------------------------------------------------------ *)
(* LookaheadLimiter                                                   *)
(* ------------------------------------------------------------------ *)
\* LookaheadLimiter::new
LookaheadLimiter_new(target_level) ==
    [target_level |-> target_level, current_gain |-> Scale,
     attack_coeff |-> ATTACK_COEFF, release_coeff |-> RELEASE_COEFF]

\* per sample index the largest magnitude of any channel
LinkedMax(frames) ==
    [k \in 1..Len(frames[1]) |->
        LET mags == {Abs(frames[i][k]) : i \in 1..Len(frames)}
        IN  CHOOSE m \in mags : \A w \in mags : w <= m]

\* the gain smoothing with no upper limit on the target gain
LimiterGain_Unbounded(lim, max_rms) ==
    IF max_rms > AGC_SILENCE_RMS
    THEN LET target_gain == Div(lim.target_level, max_rms)
         IN  IF target_gain < lim.current_gain
             THEN lim.current_gain + Mul(target_gain - lim.current_gain, lim.attack_coeff)
             ELSE lim.current_gain + Mul(target_gain - lim.current_gain, lim.release_coeff)
    ELSE IF lim.current_gain > Scale THEN lim.current_gain - AGC_DECAY_STEP
    ELSE lim.current_gain

\* the gain smoothing of process_frame
LimiterGain(lim, max_rms) ==
    IF max_rms > AGC_SILENCE_RMS
    THEN LET error == Div(lim.target_level, max_rms)
             target_gain == IF error < Scale THEN error ELSE Min(error, AGC_MAX_GAIN)
         IN  IF target_gain < lim.current_gain
             THEN lim.current_gain + Mul(target_gain - lim.current_gain, lim.attack_coeff)
             ELSE lim.current_gain + Mul(target_gain - lim.current_gain, lim.release_coeff)
    ELSE IF lim.current_gain > Scale THEN lim.current_gain - AGC_DECAY_STEP
    ELSE lim.current_gain

\* the gain applied with no clamp after it
LimiterClamp_None(val) == val

\* val.clamp(-0.99, 0.99)
LimiterClamp(val) == Clamp(val, -CLAMP_LIMIT, CLAMP_LIMIT)

\* LookaheadLimiter::process_frame: the limiter and the frames after it
LookaheadLimiter_process_frame(lim, frames) ==
    IF Len(frames) = 0 THEN [lim |-> lim, frames |-> frames]
    ELSE LET gain == LimiterGain(lim, Rms(LinkedMax(frames)))
         IN  [lim |-> [lim EXCEPT !.current_gain = gain],
              frames |-> [i \in 1..Len(frames) |->
                            [k \in 1..Len(frames[i]) |->
                                LimiterClamp(Mul(frames[i][k], gain))]]]

(* ------------------------------------------------------------------ *)
(* Third-party engines: the outcome of a call is an input             *)
(* ------------------------------------------------------------------ *)
\* DenoiseState::process_frame(output, input): what RNNoise leaves of the
\* frame
DenoiseKinds == {"keep", "attenuate", "mute"}
DenoiseRun(kind, frame) ==
    [j \in 1..Len(frame) |->
        CASE kind = "keep" -> frame[j]
          [] kind = "attenuate" -> Mul(frame[j], Scale \div 2)
          [] OTHER -> 0]

\* VoipAec3::process: Ok with the reference removed from the microphone
\* signal, or Err
AecOutcomes == {"ok", "err"}

\* a fallback that hands on the cleared output_buffer
EchoCanceller_process_frame_Silent(outcome, mic_input, speaker_ref) ==
    IF outcome = "err"
    THEN [ok |-> FALSE, output |-> [j \in 1..Len(mic_input) |-> 0]]
    ELSE [ok |-> TRUE,
          output |-> [j \in 1..Len(mic_input) |-> mic_input[j] - speaker_ref[j]]]

\* EchoCanceller::process_frame: the bool returned and the output buffer
EchoCanceller_process_frame(outcome, mic_input, speaker_ref) ==
    IF outcome = "err"
    THEN [ok |-> FALSE, output |-> mic_input]
    ELSE [ok |-> TRUE,
          output |-> [j \in 1..Len(mic_input) |-> mic_input[j] - speaker_ref[j]]]

\* VoipAec3::builder(..).build(): an engine that has processed no frame
FreshEngine == [frames |-> 0]

\* a reset that gives up the engine it could not rebuild
EchoCanceller_reset_Forgets(engine, built) ==
    IF built = "ok" THEN [ok |-> TRUE, aec |-> FreshEngine]
    ELSE [ok |-> FALSE, aec |-> FreshEngine]

\* EchoCanceller::reset, built being the outcome of build(): the bool
\* returned and the engine held afterwards
EchoCanceller_reset(engine, built) ==
    IF built = "ok" THEN [ok |-> TRUE, aec |-> FreshEngine]
    ELSE [ok |-> FALSE, aec |-> engine]

(* ------------------------------------------------------------------ *)
(* VoidProcessor                                                      *)
(* ------------------------------------------------------------------ *)
BypassStates == {"Active", "Bypassed", "FadingOut", "FadingIn"}

\* Vec<f32> calibration_samples, held as what the code reads from it: its
\* length and its largest element (fold(0.0, f32::max))
EmptySamples == [len |-> 0, max |-> 0]
PushSample(v, rms) == [len |-> v.len + 1, max |-> Max(v.max, rms)]

\* VoidProcessor::new: the processor's own fields
VoidProcessor_new(channels, vad_sensitivity, eq_params, agc_target_level, echo_cancel_enabled) ==
    [echo_canceller |-> IF echo_cancel_enabled THEN channels ELSE 0,
     eq |-> [i \in 1..channels |->
                ThreeBandEq_new(eq_params[1], eq_params[2], eq_params[3])],
     agc_limiter |-> LookaheadLimiter_new(agc_target_level),
     noise_floor_tracker |-> NoiseFloorTracker_new,
     channels |-> channels,
     gate_open |-> FALSE,
     samples_since_close |-> 0,
     samples_since_open |-> 0,
     fade_position |-> 0,
     bypass_state |-> "Active",
     crossfade_pos |-> 0,
     calibration_samples |-> EmptySamples,
     current_vad_mode |-> vad_sensitivity,
     current_eq_enabled |-> TRUE,
     current_agc_enabled |-> FALSE,
     current_eq_low |-> eq_params[1],
     current_eq_mid |-> eq_params[2],
     current_eq_high |-> eq_params[3],
     spectrum_sender |-> FALSE,
     spectrum_frame_counter |-> 0]

\* VoidProcessor::new: the shared atomic cells
VoidProcessor_new_cells(vad_sensitivity, eq_params, agc_target_level) ==
    [volume_level |-> 0,
     calibration_mode |-> FALSE,
     calibration_result |-> 0,
     vad_sensitivity |-> vad_sensitivity,
     eq_low_gain |-> eq_params[1],
     eq_mid_gain |-> eq_params[2],
     eq_high_gain |-> eq_params[3],
     eq_enabled |-> TRUE,
     agc_enabled |-> FALSE,
     agc_target |-> agc_target_level,
     bypass_enabled |-> FALSE,
     jitter_ewma_us |-> 0,
     gate_threshold |-> DEFAULT_GATE_THRESHOLD,
     suppression_strength |-> Scale,
     dynamic_threshold_enabled |-> FALSE]

\* the bypass toggle turning a fade in progress around
BypassToggle_Restarts(p, bypass_requested) ==
    IF p.bypass_state \in {"Active", "FadingIn"} /\ bypass_requested
    THEN [p EXCEPT !.bypass_state = "FadingOut", !.crossfade_pos = 0]
    ELSE IF p.bypass_state \in {"Bypassed", "FadingOut"} /\ ~bypass_requested
    THEN [p EXCEPT !.bypass_state = "FadingIn", !.crossfade_pos = 0]
    ELSE p

\* the bypass toggle as an instant flip of the state
BypassToggle_Instant(p, bypass_requested) ==
    IF p.bypass_state = "Active" /\ bypass_requested
    THEN [p EXCEPT !.bypass_state = "Bypassed", !.crossfade_pos = 0]
    ELSE IF p.bypass_state = "Bypassed" /\ ~bypass_requested
    THEN [p EXCEPT !.bypass_state = "Active", !.crossfade_pos = 0]
    ELSE p

\* process_updates: the bypass toggle
BypassToggle(p, bypass_requested) ==
    IF p.bypass_state = "Active" /\ bypass_requested
    THEN [p EXCEPT !.bypass_state = "FadingOut", !.crossfade_pos = 0]
    ELSE IF p.bypass_state = "Bypassed" /\ ~bypass_requested
    THEN [p EXCEPT !.bypass_state = "FadingIn", !.crossfade_pos = 0]
    ELSE p

\* the VAD mode cached as loaded
UpdateVad_Unclamped(p, new_vad) ==
    IF new_vad # p.current_vad_mode
    THEN [p EXCEPT !.current_vad_mode = new_vad]
    ELSE p

\* process_updates: the VAD mode
UpdateVad(p, new_vad) ==
    IF new_vad # p.current_vad_mode
    THEN [p EXCEPT !.current_vad_mode = Clamp(new_vad, 0, 3)]
    ELSE p

\* process_updates: the EQ gains
UpdateEq(p, new_low, new_mid, new_high) ==
    IF /\ Len(p.eq) # 0
       /\ \/ Abs(new_low - p.current_eq_low) > EQ_EPSILON
          \/ Abs(new_mid - p.current_eq_mid) > EQ_EPSILON
          \/ Abs(new_high - p.current_eq_high) > EQ_EPSILON
    THEN [p EXCEPT !.current_eq_low = new_low,
                   !.current_eq_mid = new_mid,
                   !.current_eq_high = new_high,
                   !.eq = [i \in 1..Len(p.eq) |->
                            ThreeBandEq_update_gains(p.eq[i], new_low, new_mid, new_high)]]
    ELSE p

\* the AGC target moved half of the way to the cell's value
UpdateAgc_Smooth(p, eq_enabled, agc_enabled, new_target) ==
    [p EXCEPT !.current_eq_enabled = eq_enabled,
              !.current_agc_enabled = agc_enabled,
              !.agc_limiter.target_level =
                  IF Abs(new_target - p.agc_limiter.target_level) > AGC_TARGET_EPSILON
                  THEN @ + (new_target - @) \div 2 ELSE @]

\* process_updates: the enabled flags and the AGC target
UpdateAgc(p, eq_enabled, agc_enabled, new_target) ==
    [p EXCEPT !.current_eq_enabled = eq_enabled,
              !.current_agc_enabled = agc_enabled,
              !.agc_limiter.target_level =
                  IF Abs(new_target - p.agc_limiter.target_level) > AGC_TARGET_EPSILON
                  THEN new_target ELSE @]

\* VoidProcessor::process_updates
VoidProcessor_process_updates(p, c) ==
    UpdateAgc(
        BypassToggle(
            UpdateEq(UpdateVad(p, c.vad_sensitivity),
                     c.eq_low_gain, c.eq_mid_gain, c.eq_high_gain),
            c.bypass_enabled),
        c.eq_enabled, c.agc_enabled, c.agc_target)

\* the shape check with the output count forgotten
ShapeMismatch_InputOnly(p, call) ==
    Len(call.input) # p.channels

\* process_frame: the shape check
ShapeMismatch(p, call) ==
    Len(call.input) # p.channels \/ call.n_out # p.channels

\* process_frame on a shape mismatch: every supplied buffer zero-filled
SilenceOutputs(n_out) == [i \in 1..n_out |-> ZeroFrame]

\* an echo stage that cancels only against the reference of the same index
EchoStage_NoFallback(p, call, i) ==
    IF i <= p.echo_canceller /\ call.refs.some /\ i <= Len(call.refs.frames)
    THEN EchoCanceller_process_frame(call.aec, call.input[i],
                                     call.refs.frames[i]).output
    ELSE call.input[i]

\* 1.A echo cancellation: the frame handed to the denoiser for channel i
EchoStage(p, call, i) ==
    IF i <= p.echo_canceller /\ call.refs.some /\ Len(call.refs.frames) > 0
    THEN LET ref_ch == IF i <= Len(call.refs.frames)
                       THEN call.refs.frames[i]
                       ELSE call.refs.frames[1]
         IN  EchoCanceller_process_frame(call.aec, call.input[i], ref_ch).output
    ELSE call.input[i]

\* 1.C blend: temp_input.mul_add(1.0 - s, denoised * s)
BlendStage(temp_input, denoised, s) ==
    [j \in 1..FRAME_SIZE |-> MulAdd(temp_input[j], Scale - s, Mul(denoised[j], s))]

\* 1. the per-channel stage for every channel
PerChannelStage(p, call) ==
    [i \in 1..p.channels |->
        LET temp_input == EchoStage(p, call, i)
        IN  BlendStage(temp_input, DenoiseRun(call.denoise, temp_input),
                       call.suppression_strength)]

\* 2. the normalised mono mix
MonoMix(channels, frames) ==
    [j \in 1..FRAME_SIZE |->
        Mul(SumRange([i \in 1..channels |-> frames[i][j]], 1, channels),
            Scale \div channels)]

\* SAMPLE_RATE * 3 / FRAME_SIZE
calibration_frames == (SAMPLE_RATE * 3) \div FRAME_SIZE

\* the suggested threshold: (max_rms * 1.2).max(0.005)
Suggested(max_rms) == Max(Mul(max_rms, CALIBRATION_FACTOR), CALIBRATION_FLOOR)

\* calibration that publishes one frame late
CalibrationStep_Late(samples, c, rms) ==
    IF ~c.calibration_mode THEN [samples |-> samples, c |-> c]
    ELSE LET v == PushSample(samples, rms)
         IN  IF v.len > calibration_frames
             THEN [samples |-> EmptySamples,
                   c |-> [c EXCEPT !.calibration_result = Suggested(v.max),
                                   !.calibration_mode = FALSE]]
             ELSE [samples |-> v, c |-> c]

\* calibration that publishes and goes on measuring
CalibrationStep_Continuous(samples, c, rms) ==
    IF ~c.calibration_mode THEN [samples |-> samples, c |-> c]
    ELSE LET v == PushSample(samples, rms)
         IN  IF v.len >= calibration_frames
             THEN [samples |-> v,
                   c |-> [c EXCEPT !.calibration_result = Suggested(v.max)]]
             ELSE [samples |-> v, c |-> c]

\* calibration mode: the sample buffer and the cells after the frame
CalibrationStep(samples, c, rms) ==
    IF ~c.calibration_mode THEN [samples |-> samples, c |-> c]
    ELSE LET v == PushSample(samples, rms)
         IN  IF v.len >= calibration_frames
             THEN [samples |-> EmptySamples,
                   c |-> [c EXCEPT !.calibration_result = Suggested(v.max),
                                   !.calibration_mode = FALSE]]
             ELSE [samples |-> v, c |-> c]

\* a dynamic threshold without its clamp
DynamicThreshold_Unclamped(floor) == MulAdd(floor, DYN_FACTOR, DYN_OFFSET)

\* the dynamic threshold: floor.mul_add(1.5, 0.003).clamp(0.005, 0.08)
DynamicThreshold(floor) == Clamp(MulAdd(floor, DYN_FACTOR, DYN_OFFSET), DYN_MIN, DYN_MAX)

attack_samples == (SAMPLE_RATE \div 1000) * ATTACK_MS
release_samples == (SAMPLE_RATE \div 1000) * RELEASE_MS
fade_samples == (SAMPLE_RATE \div 1000) * FADE_MS

\* the gate decision with the release compared by >=
GateDecision_ReleaseAtLeast(p, above) ==
    IF above
    THEN LET since_close == p.samples_since_close + FRAME_SIZE
         IN  IF since_close >= attack_samples
             THEN [p EXCEPT !.samples_since_close = since_close,
                            !.gate_open = TRUE,
                            !.samples_since_open = 0,
                            !.fade_position = 0]
             ELSE [p EXCEPT !.samples_since_close = since_close]
    ELSE IF p.gate_open
    THEN [p EXCEPT !.samples_since_close = 0,
                   !.samples_since_open = @ + FRAME_SIZE,
                   !.gate_open = ~(p.samples_since_open + FRAME_SIZE >= release_samples)]
    ELSE [p EXCEPT !.samples_since_close = 0]

\* a gate that wants two frames above the threshold before it opens
GateDecision_SlowAttack(p, above) ==
    IF above
    THEN LET since_close == p.samples_since_close + FRAME_SIZE
         IN  IF since_close >= 2 * FRAME_SIZE
             THEN [p EXCEPT !.samples_since_close = since_close,
                            !.gate_open = TRUE,
                            !.samples_since_open = 0,
                            !.fade_position = 0]
             ELSE [p EXCEPT !.samples_since_close = since_close]
    ELSE IF p.gate_open
    THEN [p EXCEPT !.samples_since_close = 0,
                   !.samples_since_open = @ + FRAME_SIZE,
                   !.gate_open = ~(p.samples_since_open + FRAME_SIZE > release_samples)]
    ELSE [p EXCEPT !.samples_since_close = 0]

\* the gate decision; above: rms > effective_threshold || is_speech
GateDecision(p, above) ==
    IF above
    THEN LET since_close == p.samples_since_close + FRAME_SIZE
         IN  IF since_close >= attack_samples
             THEN [p EXCEPT !.samples_since_close = since_close,
                            !.gate_open = TRUE,
                            !.samples_since_open = 0,
                            !.fade_position = 0]
             ELSE [p EXCEPT !.samples_since_close = since_close]
    ELSE IF p.gate_open
    THEN [p EXCEPT !.samples_since_close = 0,
                   !.samples_since_open = @ + FRAME_SIZE,
                   !.gate_open = ~(p.samples_since_open + FRAME_SIZE > release_samples)]
    ELSE [p EXCEPT !.samples_since_close = 0]

\* 1.0 - (local_fade / fade_samples)
FadeGain(local_fade) == Scale - (local_fade * Scale) \div fade_samples

\* the closed gate's envelope with the samples after the fade let through
GateApply_NoMute(fade_position, frame) ==
    [j \in 1..Len(frame) |->
        LET local_fade == fade_position + (j - 1)
        IN  IF local_fade < fade_samples
            THEN Mul(frame[j], FadeGain(local_fade))
            ELSE frame[j]]

\* the closed gate's envelope over one channel, from fade_position
GateApply(fade_position, frame) ==
    [j \in 1..Len(frame) |->
        LET local_fade == fade_position + (j - 1)
        IN  IF local_fade < fade_samples
            THEN Mul(frame[j], FadeGain(local_fade))
            ELSE 0]

\* a fade position that the closed gate never advances
FinalFade_Stuck(fade_position, len) == fade_position

\* local_fade after the loop over one channel
FinalFade(fade_position, len) ==
    IF fade_position >= fade_samples THEN fade_position
    ELSE Min(fade_position + len, fade_samples)

\* the samples leaving the gate stage, per channel
GateStage(p, frames) ==
    [i \in 1..p.channels |->
        IF ~p.gate_open THEN GateApply(p.fade_position, frames[i]) ELSE frames[i]]

\* the equalizer over the gated channels: the filters and the frames
EqStage(p, frames) ==
    [i \in 1..p.channels |->
        IF p.current_eq_enabled /\ i <= Len(p.eq)
        THEN ThreeBandEq_process(p.eq[i], frames[i])
        ELSE [eq |-> IF i <= Len(p.eq) THEN p.eq[i] ELSE <<>>, frame |-> frames[i]]]

\* the crossfade curves at position t_start = k of crossfade_len = L: the
\* sine of t * PI / 2 by Bhaskara's quotient 4m / (5 L^2 - m) with
\* m = k (2L - k), which is 0 at k = 0 and 1 at k = L; the cosine is the
\* sine of the complement
FadeSin(k) ==
    LET m == k * (2 * crossfade_len - k)
    IN  (4 * m * Scale) \div (5 * crossfade_len * crossfade_len - m)
FadeCos(k) == FadeSin(crossfade_len - k)

\* t_start when sample j (1-based) of the frame is blended
CrossfadeAt(crossfade_pos, j) == Min(crossfade_pos + (j - 1), crossfade_len)

\* FadingOut: wet (processed) falls with the cosine, dry (input) rises
FadeOutFrame(crossfade_pos, wet, dry) ==
    [j \in 1..FRAME_SIZE |->
        LET k == CrossfadeAt(crossfade_pos, j)
        IN  MulAdd(wet[j], FadeCos(k), Mul(dry[j], FadeSin(k)))]

\* FadingIn: wet (processed) rises with the sine, dry (input) falls
FadeInFrame(crossfade_pos, wet, dry) ==
    [j \in 1..FRAME_SIZE |->
        LET k == CrossfadeAt(crossfade_pos, j)
        IN  MulAdd(wet[j], FadeSin(k), Mul(dry[j], FadeCos(k)))]

\* a finished crossfade that always ends in Active
FadeTarget_AlwaysActive(bypass_state) == "Active"

\* the state a finished crossfade ends in
FadeTarget(bypass_state) ==
    IF bypass_state = "FadingOut" THEN "Bypassed" ELSE "Active"

\* Apply Crossfade transitions: outputs, position and state
CrossfadeStage(p, frames, input) ==
    IF p.bypass_state \in {"FadingOut", "FadingIn"}
    THEN LET pos == IF p.crossfade_pos >= crossfade_len THEN p.crossfade_pos
                    ELSE Min(p.crossfade_pos + FRAME_SIZE, crossfade_len)
         IN  [frames |-> [i \in 1..p.channels |->
                            IF p.bypass_state = "FadingOut"
                            THEN FadeOutFrame(p.crossfade_pos, frames[i], input[i])
                            ELSE FadeInFrame(p.crossfade_pos, frames[i], input[i])],
              crossfade_pos |-> pos,
              bypass_state |-> IF pos >= crossfade_len
                               THEN FadeTarget(p.bypass_state)
                               ELSE p.bypass_state]
    ELSE [frames |-> frames, crossfade_pos |-> p.crossfade_pos,
          bypass_state |-> p.bypass_state]

\* the throttle counter wrapping one call late
SpectrumCounter_Late(n) == IF n + 1 > SPECTRUM_EVERY THEN 0 ELSE n + 1

\* the throttle counter after the increment
SpectrumCounter(n) == IF n + 1 >= SPECTRUM_EVERY THEN 0 ELSE n + 1

\* Spectrum emission: the sender handle and the channel after the frame.
\* fft_ok: both samples_fft_to_spectrum calls returned Ok.
SpectrumStage(p, chan, fft_ok) ==
    LET counter == SpectrumCounter(p.spectrum_frame_counter)
        offered == counter = 0 /\ p.spectrum_sender /\ fft_ok
                   /\ chan.len < SPECTRUM_CAP
    IN  [counter |-> counter,
         sender |-> IF offered /\ ~chan.connected THEN FALSE ELSE p.spectrum_sender,
         chan |-> IF offered /\ chan.connected
                  THEN [chan EXCEPT !.len = @ + 1] ELSE chan]

\* process_frame, the branch taken in every state but Bypassed: analysis,
\* calibration, gate decision, gate, EQ and AGC
AnalysisStage(p, c, call, blended, mono_mix) ==
    Let(Rms(mono_mix), LAMBDA rms :
    Let(CalibrationStep(p.calibration_samples,
                        [c EXCEPT !.volume_level = rms], rms), LAMBDA cal :
    Let(IF call.dynamic_threshold_enabled
        THEN NoiseFloorTracker_update(p.noise_floor_tracker, rms)
        ELSE p.noise_floor_tracker, LAMBDA tracker :
    Let(IF call.dynamic_threshold_enabled
        THEN DynamicThreshold(tracker.current_floor)
        ELSE call.gate_threshold, LAMBDA effective_threshold :
    Let(rms > effective_threshold \/ call.is_speech, LAMBDA above :
    Let(GateDecision(p, above), LAMBDA g :
    Let(GateStage(g, blended), LAMBDA gated :
    Let(EqStage(g, gated), LAMBDA eqd :
    Let(IF g.current_agc_enabled
        THEN LookaheadLimiter_process_frame(
                 g.agc_limiter, [i \in 1..p.channels |-> eqd[i].frame])
        ELSE [lim |-> g.agc_limiter,
              frames |-> [i \in 1..p.channels |-> eqd[i].frame]], LAMBDA agc :
        [p |-> [g EXCEPT !.calibration_samples = cal.samples,
                         !.noise_floor_tracker = tracker,
                         !.eq = [i \in 1..Len(g.eq) |->
                                    IF i <= p.channels THEN eqd[i].eq ELSE g.eq[i]],
                         !.fade_position =
                             IF ~g.gate_open
                             THEN FinalFade(g.fade_position, FRAME_SIZE)
                             ELSE 0,
                         !.agc_limiter = agc.lim],
         c |-> cal.c, frames |-> agc.frames, gated |-> gated,
         analysed |-> TRUE, above |-> above])))))))))

\* a Bypassed process_frame that analyses and gates the frame all the same
BypassedStage_Analyses(p, c, call) ==
    AnalysisStage(p, c, call, call.input, MonoMix(p.channels, call.input))

\* process_frame in state Bypassed: the input copied to the output
BypassedStage(p, c, call) ==
    [p |-> p, c |-> c, frames |-> [i \in 1..p.channels |-> call.input[i]],
     gated |-> <<>>, analysed |-> FALSE, above |-> FALSE]

\* a rejected call that still counts as a frame for the spectrum throttle
\* and publishes a volume of 0
RejectedCall_Counts(p, c, chan, call) ==
    [p |-> [p EXCEPT !.spectrum_frame_counter = SpectrumCounter(@)],
     c |-> [c EXCEPT !.volume_level = 0], chan |-> chan,
     out |-> SilenceOutputs(call.n_out),
     gated |-> <<>>, accepted |-> FALSE, analysed |-> FALSE, above |-> FALSE]

\* process_frame on a channel-count mismatch: the output buffers are
\* filled with silence and the call returns
RejectedCall(p, c, chan, call) ==
    [p |-> p, c |-> c, chan |-> chan, out |-> SilenceOutputs(call.n_out),
     gated |-> <<>>, accepted |-> FALSE, analysed |-> FALSE, above |-> FALSE]

\* VoidProcessor::process_frame: the processor, the cells, the spectrum
\* channel and the output buffers after the call; gated is what left the
\* gate stage, analysed and above tell which branches the call took
VoidProcessor_process_frame(p, c, chan, call) ==
    IF ShapeMismatch(p, call)
    THEN RejectedCall(p, c, chan, call)
    ELSE Let(PerChannelStage(p, call), LAMBDA blended :
         Let(IF p.bypass_state = "Bypassed"
             THEN BypassedStage(p, c, call)
             ELSE AnalysisStage(p, c, call, blended,
                                MonoMix(p.channels, blended)), LAMBDA a :
         Let(CrossfadeStage(a.p, a.frames, call.input), LAMBDA x :
         Let(SpectrumStage(a.p, chan, call.fft_ok), LAMBDA sp :
             [p |-> [a.p EXCEPT !.bypass_state = x.bypass_state,
                                !.crossfade_pos = x.crossfade_pos,
                                !.spectrum_frame_counter = sp.counter,
                                !.spectrum_sender = sp.sender],
              c |-> a.c, chan |-> sp.chan, out |-> x.frames,
              gated |-> a.gated, accepted |-> TRUE,
              analysed |-> a.analysed, above |-> a.above]))))

RECURSIVE Flatten(_)
Flatten(seqs) == IF seqs = <<>> THEN <<>> ELSE Head(seqs) \o Flatten(Tail(seqs))

\* whether the echo canceller runs for channel i of the call
EchoRuns(p, call, i) ==
    i <= p.echo_canceller /\ call.refs.some /\ Len(call.refs.frames) > 0

\* the stages of the per-channel loop, channel after channel
PerChannelTrace(p, call) ==
    Flatten([i \in 1..p.channels |->
                (IF EchoRuns(p, call, i) THEN << <<"echo_cancel", i>> >> ELSE <<>>)
                \o << <<"denoise", i>>, <<"blend", i>> >>])

\* the gate and EQ loop, channel after channel
ShapingTrace(p) ==
    Flatten([i \in 1..p.channels |->
                << <<"gate_apply", i>> >>
                \o (IF p.current_eq_enabled THEN << <<"eq", i>> >> ELSE <<>>)])

\* a process_frame that levels the channels before it gates them
StageTrace_AgcFirst(p, call) ==
    PerChannelTrace(p, call)
    \o (IF p.bypass_state = "Bypassed" THEN <<>>
        ELSE << <<"gate_analysis", 0>> >>
             \o (IF p.current_agc_enabled THEN << <<"agc", 0>> >> ELSE <<>>)
             \o ShapingTrace(p))
    \o << <<"crossfade", 0>>, <<"spectrum", 0>> >>

\* the stages a process_frame call of valid shape runs, in the order of
\* the statements that run them; a stage of one channel carries the
\* channel, a stage on all channels or on the mono mix carries 0
StageTrace(p, call) ==
    PerChannelTrace(p, call)
    \o (IF p.bypass_state = "Bypassed" THEN <<>>
        ELSE << <<"gate_analysis", 0>> >>
             \o ShapingTrace(p)
             \o (IF p.current_agc_enabled THEN << <<"agc", 0>> >> ELSE <<>>))
    \o << <<"crossfade", 0>>, <<"spectrum", 0>> >>

\* temp_input.copy_from_slice(input_ch) panics when a channel of a call of
\* valid channel count is not FRAME_SIZE samples long
FramePanics(p, call) ==
    /\ ~ShapeMismatch(p, call)
    /\ \E i \in 1..Len(call.input) : Len(call.input[i]) # FRAME_SIZE

\* a process_frame that also applies the threshold it suggests
FrameStores_AppliesThreshold(c, r) ==
    (IF r.analysed THEN {"volume_level"} ELSE {})
    \cup (IF c.calibration_mode /\ ~r.c.calibration_mode
          THEN {"calibration_result", "calibration_mode", "gate_threshold"} ELSE {})

\* the cells a process_frame call stores to, c being the cells before it
\* and r its result: volume_level in every analysed frame,
\* calibration_result and calibration_mode when a calibration run ends
FrameStores(c, r) ==
    (IF r.analysed THEN {"volume_level"} ELSE {})
    \cup (IF c.calibration_mode /\ ~r.c.calibration_mode
          THEN {"calibration_result", "calibration_mode"} ELSE {})

(* ------------------------------------------------------------------ *)
(* State                                                              *)
(* ------------------------------------------------------------------ *)
VARIABLES
    p,          \* the VoidProcessor's own fields
    cells,      \* the shared atomic cells (Arc<AtomicU32>, Arc<AtomicBool>)
    chan,       \* the spectrum channel: queued pairs, receiver alive
    out,        \* the output buffers as the last process_frame left them
    inp,        \* the input buffers of the last process_frame
    gated,      \* the samples that left the gate stage in the last call
    last,       \* the last operation and the branches it took
    quiet_run,  \* consecutive analysed quiet frames since the gate was fed
    hold,       \* cycles completed since bypass_enabled last changed
    fed,        \* frames of valid shape since construction, any of them loud
    cal_run,    \* the calibration run: calls, collected values, results written
    gui,        \* the control surface's own state
    rb_in,      \* FrameAdapter: the input ring buffer, oldest sample first
    rb_out,     \* FrameAdapter: the output ring buffer, oldest sample first
    stores,     \* which side has stored to which cell, where this is recorded
    aec,        \* an EchoCanceller of its own: its engine
    th,         \* the application's audio thread, its run flag and its rings
    host        \* a plugin host's cycle: its block size and where it stands

vars == <<p, cells, chan, out, inp, gated, last, quiet_run, hold, fed, cal_run,
          gui, rb_in, rb_out, stores, aec, th, host>>
hostVars == <<gui, rb_in, rb_out, aec, th, host>>

\* the stores made by side to the cells named are added to the record
Recorded(side, names) ==
    IF stores.on THEN [stores EXCEPT !.by = @ \cup {<<side, n>> : n \in names}]
    ELSE stores

NoOp == [op |-> "new", n_in |-> 0, n_out |-> 0, accepted |-> FALSE,
         analysed |-> FALSE, above |-> FALSE, before |-> "Active",
         open |-> FALSE, fade |-> 0]
NoHold == [from |-> "none", cycles |-> 0, armed |-> FALSE]
NoFrames == [frames |-> 0, loud |-> FALSE]
NoRun == [calls |-> 0, collected |-> 0, writes |-> 0]
\* the audio thread as AudioEngine::start spawns it: at the top of its loop,
\* the run flag set, the rings empty
NoThread ==
    [pc |-> "top", is_running |-> TRUE, in_len |-> 0, out_len |-> 0,
     retries |-> 0, jitter_frames |-> 0, after_drop |-> 0, wrote |-> "none"]

\* no plugin host: no block size, no cycle begun
NoHost == [block |-> 0, pc |-> "push", cycle |-> 0]

\* a processor p0 with cells c0 and nothing around it yet; recording says
\* whether the stores to the cells are recorded from here on
InitState(p0, c0, recording) ==
    /\ stores = [on |-> recording, by |-> {}]
    /\ aec = FreshEngine
    /\ p = p0
    /\ cells = c0
    /\ chan = [len |-> 0, connected |-> TRUE]
    /\ out = <<>>
    /\ inp = <<>>
    /\ gated = <<>>
    /\ last = NoOp
    /\ quiet_run = 0
    /\ hold = NoHold
    /\ fed = NoFrames
    /\ cal_run = NoRun
    /\ gui = [is_calibrating |-> FALSE, result_read |-> 0]
    /\ rb_in = <<>>
    /\ rb_out = <<>>
    /\ th = NoThread
    /\ host = NoHost

InitWith(p0, c0) == InitState(p0, c0, FALSE)

\* test_processor_creation: VoidProcessor::new(channels, 2, (0, 0, 0), 0.7, false)
InitProcessor(channels) ==
    InitWith(VoidProcessor_new(channels, 2, <<0, 0, 0>>, 7000, FALSE),
             VoidProcessor_new_cells(2, <<0, 0, 0>>, 7000))

(* ------------------------------------------------------------------ *)
(* The calls the environment makes                                    *)
(* ------------------------------------------------------------------ *)
NoRefs == [some |-> FALSE, frames |-> <<>>]

Call(input, n_out, denoise, is_speech, strength) ==
    [input |-> input, n_out |-> n_out, refs |-> NoRefs,
     suppression_strength |-> strength,
     gate_threshold |-> DEFAULT_GATE_THRESHOLD,
     dynamic_threshold_enabled |-> FALSE,
     denoise |-> denoise, is_speech |-> is_speech, aec |-> "ok",
     fft_ok |-> TRUE]

Inputs(n, patterns) == {[i \in 1..n |-> f] : f \in patterns}

\* denoiser outcome, VAD verdict and suppression strength of a call
Engines == {<<"keep", FALSE, Scale>>, <<"keep", TRUE, Scale>>,
            <<"mute", FALSE, Scale>>, <<"attenuate", FALSE, Scale \div 2>>}

ValidCalls(channels, patterns, engines) ==
    {Call(i, channels, e[1], e[2], e[3]) : i \in Inputs(channels, patterns), e \in engines}

\* calls whose input or output count differs from the channel count
MismatchCalls(channels) ==
    {Call([i \in 1..n[1] |-> LoudFrame], n[2], "keep", FALSE, Scale) :
        n \in {m \in ((channels - 1)..(channels + 1)) \X ((channels - 1)..(channels + 1)) :
                    m[1] # channels \/ m[2] # channels}}

(* ------------------------------------------------------------------ *)
(* Actions                                                            *)
(* ------------------------------------------------------------------ *)
\* the control surface toggles bypass: bypass_enabled.store(!current)
StoreBypass ==
    /\ cells' = [cells EXCEPT !.bypass_enabled = ~@]
    /\ hold' = NoHold
    /\ last' = [NoOp EXCEPT !.op = "store", !.before = p.bypass_state]
    /\ stores' = Recorded("control", {"bypass_enabled"})
    /\ UNCHANGED <<p, chan, out, inp, gated, quiet_run, fed, cal_run>>
    /\ UNCHANGED hostVars

\* the audio thread calls process_updates
ProcessUpdates ==
    /\ p' = VoidProcessor_process_updates(p, cells)
    /\ hold' = [hold EXCEPT !.from = IF @ = "none" THEN p.bypass_state ELSE @,
                            !.armed = TRUE]
    /\ last' = [NoOp EXCEPT !.op = "process_updates", !.before = p.bypass_state]
    /\ UNCHANGED <<cells, chan, out, inp, gated, quiet_run, fed, cal_run, stores>>
    /\ UNCHANGED hostVars

\* the audio thread calls process_frame
ProcessFrame(call) ==
    /\ ~FramePanics(p, call)
    /\ \E r \in {VoidProcessor_process_frame(p, cells, chan, call)} :
        /\ r.p.samples_since_close <= MaxLoudRun * FRAME_SIZE
        /\ p' = r.p
        /\ cells' = r.c
        /\ chan' = r.chan
        /\ out' = r.out
        /\ inp' = call.input
        /\ gated' = r.gated
        /\ last' = [op |-> "process_frame", n_in |-> Len(call.input),
                    n_out |-> call.n_out, accepted |-> r.accepted,
                    analysed |-> r.analysed, above |-> r.above,
                    before |-> p.bypass_state, open |-> p.gate_open,
                    fade |-> p.fade_position, call |-> call,
                    stages |-> IF r.accepted THEN StageTrace(p, call) ELSE <<>>]
        /\ fed' = IF r.accepted
                  THEN [frames |-> Min(fed.frames + 1, 2), loud |-> fed.loud \/ r.above]
                  ELSE fed
        /\ cal_run' = IF r.accepted /\ cells.calibration_mode
                      THEN [calls |-> Min(cal_run.calls + 1, calibration_frames + 1),
                            collected |-> IF r.analysed THEN cal_run.collected + 1
                                          ELSE cal_run.collected,
                            writes |-> IF r.c.calibration_mode THEN cal_run.writes
                                       ELSE cal_run.writes + 1]
                      ELSE cal_run
        /\ stores' = Recorded("audio", FrameStores(cells, r))
        /\ UNCHANGED hostVars
        /\ quiet_run' = IF ~r.analysed THEN quiet_run
                        ELSE IF r.above \/ ~p.gate_open THEN 0
                        ELSE quiet_run + 1
        /\ hold' = IF r.accepted /\ hold.armed
                   THEN [hold EXCEPT !.armed = FALSE, !.cycles = Min(@ + 1, 2)]
                   ELSE hold

\* process_frame panics: the audio thread unwinds and calls no more
ProcessFramePanics(call) ==
    /\ FramePanics(p, call)
    /\ last' = [NoOp EXCEPT !.op = "panic", !.n_in = Len(call.input),
                            !.n_out = call.n_out, !.before = p.bypass_state]
    /\ UNCHANGED <<p, cells, chan, out, inp, gated, quiet_run, hold, fed, cal_run,
                   stores>>
    /\ UNCHANGED hostVars

(* ------------------------------------------------------------------ *)
(* Specification: the processor under bypass toggles and frames       *)
(* ------------------------------------------------------------------ *)
Init == \E channels \in 1..MaxChannels : InitProcessor(channels)

Next ==
    \/ StoreBypass
    \/ ProcessUpdates
    \/ \E call \in ValidCalls(p.channels, {QuietFrame}, {<<"keep", FALSE, Scale>>})
                   \cup ValidCalls(p.channels, {RampFrame}, {<<"mute", FALSE, Scale>>}) :
            ProcessFrame(call)
    \/ \E call \in MismatchCalls(p.channels) : ProcessFrame(call)

Spec == Init /\ [][Next]_vars

(* ------------------------------------------------------------------ *)
(* Properties of Spec                                                 *)
(* ------------------------------------------------------------------ *)
\* whether the last operation was a process_frame call whose input or
\* output buffer count differed from the channel count
LastMismatched ==
    /\ last.op = "process_frame"
    /\ last.n_in # p.channels \/ last.n_out # p.channels

\* C1: a process_frame call with a number of input or output buffers other
\* than the channel count leaves exactly the supplied output buffers, each
\* sample of each of them zero, and is not processed any further.
C1_MismatchSilence ==
    LastMismatched =>
        /\ ~last.accepted
        /\ Len(out) = last.n_out
        /\ \A i \in 1..Len(out) : \A j \in 1..Len(out[i]) : out[i][j] = 0

\* a call with too few input buffers and the right number of output
\* buffers has been made, and the buffers handed in were zeroed
C1_Witness ==
    /\ LastMismatched
    /\ last.n_in < p.channels
    /\ last.n_out = p.channels
    /\ out = [i \in 1..p.channels |-> ZeroFrame]

\* the state a held bypass request settles in
Settled == IF cells.bypass_enabled THEN "Bypassed" ELSE "Active"
\* the state a request is served from in one cycle
Opposite == IF cells.bypass_enabled THEN "Active" ELSE "Bypassed"

\* C2: once bypass_enabled has been held through two cycles of
\* (process_updates; process_frame of valid shape), or through one cycle
\* that started in the opposite steady state, the bypass state is Bypassed
\* when the flag is true and Active when it is false, and it stays so while
\* the flag is held; every frame processed in state Bypassed leaves each
\* output sample equal to the input sample.
C2_BypassSettles ==
    /\ (hold.cycles >= 2 \/ (hold.cycles >= 1 /\ hold.from = Opposite))
            => p.bypass_state = Settled
    /\ (last.op = "process_frame" /\ last.accepted /\ last.before = "Bypassed")
            => /\ Len(out) = Len(inp)
               /\ \A i \in 1..Len(out) : \A j \in 1..FRAME_SIZE : out[i][j] = inp[i][j]

\* bypass was requested during a fade-in, two cycles have passed, and a
\* later frame with non-zero input has been played in state Bypassed
C2_Witness ==
    /\ cells.bypass_enabled
    /\ hold.from = "FadingIn"
    /\ hold.cycles = 2
    /\ ~hold.armed
    /\ last.op = "process_frame"
    /\ last.before = "Bypassed"
    /\ p.bypass_state = "Bypassed"
    /\ \E j \in 1..FRAME_SIZE : inp[1][j] # 0 /\ out[1][j] = inp[1][j]

\* C3: the bypass state changes only along Active -> FadingOut -> Bypassed
\* -> FadingIn -> Active; a fading state is entered only by process_updates
\* (from Active with bypass requested, from Bypassed with it not requested)
\* and left only by process_frame.
C3_BypassEdges ==
    [][p'.bypass_state # p.bypass_state =>
        \/ /\ p.bypass_state = "Active" /\ p'.bypass_state = "FadingOut"
           /\ last'.op = "process_updates" /\ cells.bypass_enabled
        \/ /\ p.bypass_state = "Bypassed" /\ p'.bypass_state = "FadingIn"
           /\ last'.op = "process_updates" /\ ~cells.bypass_enabled
        \/ /\ p.bypass_state = "FadingOut" /\ p'.bypass_state = "Bypassed"
           /\ last'.op = "process_frame"
        \/ /\ p.bypass_state = "FadingIn" /\ p'.bypass_state = "Active"
           /\ last'.op = "process_frame"]_vars

\* the whole round has been walked: a frame has just ended a fade-in
C3_Witness ==
    /\ last.op = "process_frame"
    /\ last.before = "FadingIn"
    /\ p.bypass_state = "Active"

(* ------------------------------------------------------------------ *)
(* Specification: the noise gate under quiet, loud and speech frames  *)
(* ------------------------------------------------------------------ *)
\* frames of silence, of a level under the threshold and of a level over
\* it, each with and without a speech verdict of the VAD
GateCalls(channels) ==
    ValidCalls(channels, {ZeroFrame, QuietFrame, LoudFrame},
               {<<"keep", FALSE, Scale>>, <<"keep", TRUE, Scale>>})

NextGate == \E call \in GateCalls(p.channels) : ProcessFrame(call)

SpecGate == Init /\ [][NextGate]_vars

\* whether the step is an analysed process_frame call
AnalysedStep == last'.op = "process_frame" /\ last'.analysed

\* C4: an open gate closes exactly in the 21st consecutive analysed frame
\* that is neither above the threshold nor speech, in no earlier and no
\* later one; a frame above the threshold or marked as speech resets the
\* release progress (samples_since_open) to 0 and keeps the gate open.
C4_GateRelease ==
    [][AnalysedStep =>
        /\ (p.gate_open /\ ~p'.gate_open) => (~last'.above /\ quiet_run' = 21)
        /\ (p.gate_open /\ ~last'.above /\ quiet_run' = 21) => ~p'.gate_open
        /\ (p.gate_open /\ ~last'.above /\ quiet_run' < 21) => p'.gate_open
        /\ last'.above => (p'.samples_since_open = 0 /\ quiet_run' = 0 /\ p'.gate_open)]_vars

\* the gate has just closed, in the 21st quiet frame after a loud one
C4_Witness ==
    /\ last.op = "process_frame"
    /\ last.open
    /\ ~p.gate_open
    /\ quiet_run = 21
    /\ fed.loud

\* whether every sample that left the gate stage in the last call is zero
GatedSilent ==
    /\ Len(gated) = p.channels
    /\ \A i \in 1..Len(gated) : \A j \in 1..FRAME_SIZE : gated[i][j] = 0

\* whether the last operation was an analysed quiet frame
LastQuiet == last.op = "process_frame" /\ last.analysed /\ ~last.above

\* C5: a quiet frame that finds the gate closed and the fade used up
\* (fade_position = fade_samples, 480 in the source) leaves the gate stage
\* as zeros on every channel, and so does every frame from the second on of
\* a processor fed only quiet frames since construction.
C5_ClosedGateSilence ==
    /\ (LastQuiet /\ ~last.open /\ last.fade = fade_samples) => GatedSilent
    /\ (LastQuiet /\ fed.frames >= 2 /\ ~fed.loud) => GatedSilent

\* after a loud run and the release, a quiet frame with non-zero input has
\* found the gate closed and faded out
C5_Witness ==
    /\ LastQuiet
    /\ fed.loud
    /\ ~last.open
    /\ last.fade = fade_samples
    /\ inp[1] = QuietFrame
    /\ GatedSilent

(* ------------------------------------------------------------------ *)
(* Specification: the limiter alone (test_output_never_clips)         *)
(* ------------------------------------------------------------------ *)
\* 4.0 and -4.0: amplitudes far over full scale
BigFrame == ConstFrame(4 * Scale)
NegFrame == ConstFrame(-4 * Scale)

\* the frames handed to the limiter: every channel alike, or one channel
\* overdriven next to silent ones
LimiterInputs(channels) ==
    Inputs(channels, {ZeroFrame, LoudFrame, RampFrame, BigFrame, NegFrame})
        \cup {[i \in 1..channels |-> IF i = 1 THEN NegFrame ELSE ZeroFrame]}

\* target levels: the default 0.7, none at all, a negative one, 3.0
LimiterTargets == {7000, 0, -5000, 3 * Scale}

\* the number of frames the limiter has processed
LimiterCount == IF last.op = "limiter" THEN last.count ELSE 0

\* agc_limiter.target_level is assigned
SetTarget(t) ==
    /\ t # p.agc_limiter.target_level
    /\ p' = [p EXCEPT !.agc_limiter.target_level = t]
    /\ UNCHANGED <<cells, chan, out, inp, gated, last, quiet_run, hold, fed, cal_run,
                   stores>>
    /\ UNCHANGED hostVars

\* LookaheadLimiter::process_frame is called on the frames
LimiterFrame(frames) ==
    \E r \in {LookaheadLimiter_process_frame(p.agc_limiter, frames)} :
        /\ LimiterCount < MaxLimFrames
        /\ p' = [p EXCEPT !.agc_limiter = r.lim]
        /\ out' = r.frames
        /\ inp' = frames
        /\ last' = [op |-> "limiter", count |-> LimiterCount + 1]
        /\ UNCHANGED <<cells, chan, gated, quiet_run, hold, fed, cal_run, stores>>
        /\ UNCHANGED hostVars

NextLim ==
    \/ \E t \in LimiterTargets : SetTarget(t)
    \/ \E frames \in LimiterInputs(p.channels) : LimiterFrame(frames)

SpecLim == Init /\ [][NextLim]_vars

\* C6: after LookaheadLimiter::process_frame every sample of every channel
\* lies in [-0.99, 0.99], whatever the input amplitude, the target level
\* and the gain the earlier frames left.
C6_LimiterRange ==
    last.op = "limiter" =>
        \A i \in 1..Len(out) : \A k \in 1..Len(out[i]) :
            /\ out[i][k] >= -(99 * (Scale \div 100))
            /\ out[i][k] <= 99 * (Scale \div 100)

\* after frames at another gain, an overdriven frame has been held at the
\* upper limit and, in another channel position, at the lower one
C6_Witness ==
    /\ last.op = "limiter"
    /\ last.count = MaxLimFrames
    /\ p.agc_limiter.current_gain # Scale
    /\ \E i \in 1..Len(out) : \E k \in 1..Len(out[i]) :
            Abs(inp[i][k]) > Scale /\ Abs(out[i][k]) = 99 * (Scale \div 100)

(* ------------------------------------------------------------------ *)
(* Specification: the control surface's stores and process_updates    *)
(* ------------------------------------------------------------------ *)
\* the bypass state machine at rest in any of its states, as Spec reaches
\* them: the position of a crossfade just begun or just ended
InitUpd ==
    \E channels \in 1..MaxChannels : \E b \in BypassStates :
        InitWith([VoidProcessor_new(channels, 2, <<0, 0, 0>>, 7000, FALSE)
                      EXCEPT !.bypass_state = b,
                             !.crossfade_pos = IF b \in {"Bypassed", "Active"}
                                               THEN crossfade_len ELSE 0],
                 [VoidProcessor_new_cells(2, <<0, 0, 0>>, 7000)
                      EXCEPT !.bypass_enabled = b \in {"FadingOut", "Bypassed"}])

\* a store to one cell by a holder of its Arc
Store(c) ==
    /\ c # cells
    /\ cells' = c
    /\ hold' = NoHold
    /\ last' = [NoOp EXCEPT !.op = "store", !.before = p.bypass_state]
    /\ stores' = Recorded("control", {n \in DOMAIN cells : c[n] # cells[n]})
    /\ UNCHANGED <<p, chan, out, inp, gated, quiet_run, fed, cal_run>>
    /\ UNCHANGED hostVars

\* VAD modes stored: 2, and 7 which process_updates clamps
StoreVad == \E v \in {2, 7} : Store([cells EXCEPT !.vad_sensitivity = v])
\* low-shelf gains stored: 0 dB, 0.005 dB (within the epsilon of 0), 3 dB
StoreEqLow == \E g \in {0, 5, 3000} : Store([cells EXCEPT !.eq_low_gain = g])
StoreEqEnabled == Store([cells EXCEPT !.eq_enabled = ~@])
StoreAgcEnabled == Store([cells EXCEPT !.agc_enabled = ~@])
\* AGC targets stored: 0.7, 0.705 (within the epsilon of 0.7), 0.5
StoreAgcTarget == \E t \in {7000, 7050, 5000} : Store([cells EXCEPT !.agc_target = t])

NextUpd ==
    \/ StoreVad
    \/ StoreEqLow
    \/ StoreEqEnabled
    \/ StoreAgcEnabled
    \/ StoreAgcTarget
    \/ StoreBypass
    \/ ProcessUpdates

SpecUpd == InitUpd /\ [][NextUpd]_vars

\* whether every cell process_updates reads equals what the processor
\* holds for it, the bypass request being held by the bypass state
CellsCached ==
    /\ cells.vad_sensitivity = p.current_vad_mode
    /\ cells.eq_low_gain = p.current_eq_low
    /\ cells.eq_mid_gain = p.current_eq_mid
    /\ cells.eq_high_gain = p.current_eq_high
    /\ cells.eq_enabled = p.current_eq_enabled
    /\ cells.agc_enabled = p.current_agc_enabled
    /\ cells.agc_target = p.agc_limiter.target_level
    /\ cells.bypass_enabled = (p.bypass_state \in {"FadingOut", "Bypassed"})

\* C7: process_updates called again with the cells unchanged leaves every
\* field of the processor as the first call left it, and a call made when
\* the cells equal the cached values changes no field.
C7_UpdatesIdempotent ==
    /\ last.op = "process_updates" => VoidProcessor_process_updates(p, cells) = p
    /\ CellsCached => VoidProcessor_process_updates(p, cells) = p

\* a call has just served changed cells: the VAD mode clamped, the shelf
\* retuned, bypass begun, the AGC target moved, a target within the
\* epsilon of the cached one left alone
C7_Witness ==
    /\ last.op = "process_updates"
    /\ cells.vad_sensitivity = 7 /\ p.current_vad_mode = 3
    /\ p.current_eq_low = 3000 /\ p.eq[1].low_shelf.c = LowShelfCoeffs(3000)
    /\ last.before = "Active" /\ p.bypass_state = "FadingOut"
    /\ cells.agc_target = 7050 /\ p.agc_limiter.target_level = 7000
    /\ p.current_agc_enabled

(* ------------------------------------------------------------------ *)
(* Specification: calibration runs started from the control surface   *)
(* ------------------------------------------------------------------ *)
\* the Calibrate button: enabled while no run is under way
ClickCalibrate ==
    /\ ~gui.is_calibrating
    /\ ~cells.dynamic_threshold_enabled
    /\ cells' = [cells EXCEPT !.calibration_mode = TRUE]
    /\ gui' = [gui EXCEPT !.is_calibrating = TRUE]
    /\ cal_run' = NoRun
    /\ last' = [NoOp EXCEPT !.op = "click", !.before = p.bypass_state]
    /\ stores' = Recorded("control", {"calibration_mode"})
    /\ UNCHANGED <<p, chan, out, inp, gated, quiet_run, hold, fed, rb_in, rb_out, aec, th, host>>

\* calibration_result.load(Ordering::Relaxed) on the control thread after
\* its load of calibration_mode: the audio thread's two Relaxed stores are
\* not ordered for another thread, so the load returns the latest value or
\* the one this thread read last
RelaxedResults == {gui.result_read, cells.calibration_result}

\* check_calibration_result once the control thread sees the mode cleared
CheckCalibrationResult ==
    /\ gui.is_calibrating
    /\ ~cells.calibration_mode
    /\ \E result \in RelaxedResults :
          /\ cells' = IF result > 0
                      THEN [cells EXCEPT !.gate_threshold = result]
                      ELSE cells
          /\ gui' = [is_calibrating |-> FALSE, result_read |-> result]
          /\ stores' = Recorded("control", IF result > 0
                                            THEN {"gate_threshold"} ELSE {})
    /\ last' = [NoOp EXCEPT !.op = "check", !.before = p.bypass_state]
    /\ UNCHANGED <<p, chan, out, inp, gated, quiet_run, hold, fed, cal_run, rb_in,
                   rb_out, aec, th, host>>

\* room noise at 0.002 and at 0.0045, gated by the threshold cell
CalCalls(channels) ==
    {[Call([i \in 1..channels |-> ConstFrame(v)], channels, "keep", FALSE, Scale)
        EXCEPT !.gate_threshold = cells.gate_threshold] : v \in {20, 45}}

\* a mono processor in any state of the bypass machine, as in InitUpd
InitCal ==
    \E b \in BypassStates :
        InitWith([VoidProcessor_new(1, 2, <<0, 0, 0>>, 7000, FALSE)
                      EXCEPT !.bypass_state = b,
                             !.crossfade_pos = IF b \in {"Bypassed", "Active"}
                                               THEN crossfade_len ELSE 0],
                 [VoidProcessor_new_cells(2, <<0, 0, 0>>, 7000)
                      EXCEPT !.bypass_enabled = b \in {"FadingOut", "Bypassed"}])

\* frames are followed from the click to the control surface's check, each
\* after the audio loop's process_updates has served the cells; bypass is
\* toggled after the first calls of a run
NextCal ==
    \/ ClickCalibrate
    \/ CheckCalibrationResult
    \/ /\ cells.calibration_mode
       /\ cal_run.calls = MaxToggleCall
       /\ StoreBypass
    \/ VoidProcessor_process_updates(p, cells) # p /\ ProcessUpdates
    \/ /\ gui.is_calibrating
       /\ VoidProcessor_process_updates(p, cells) = p
       /\ \E call \in CalCalls(p.channels) : ProcessFrame(call)

SpecCal == InitCal /\ [][NextCal]_vars

\* C8: calibration_result is written only by the process_frame call that
\* collects the 300th RMS value of a run, once per run; the value is
\* max(1.2 x the largest of the 300 values, 0.005); the same call clears
\* calibration_mode and empties the sample buffer.
C8_CalibrationPublish ==
    [][/\ (cal_run'.writes > cal_run.writes
            \/ cells'.calibration_result # cells.calibration_result) =>
            /\ last'.op = "process_frame"
            /\ cal_run'.collected = 300
            /\ cal_run'.writes = 1
            /\ cells.calibration_mode /\ ~cells'.calibration_mode
            /\ p'.calibration_samples.len = 0
            /\ cells'.calibration_result =
                 Max(Mul(Max(p.calibration_samples.max, cells'.volume_level),
                         12 * (Scale \div 10)),
                     5 * (Scale \div 1000))
       /\ (last'.op = "process_frame" /\ cells.calibration_mode
            /\ cal_run'.collected = 300) => cal_run'.writes = 1
       /\ (last'.op = "process_frame" /\ cells.calibration_mode
            /\ cal_run'.collected < 300) =>
                /\ cells'.calibration_mode
                /\ p'.calibration_samples.len = cal_run'.collected]_vars

\* a run over noise of 0.0045 at the most has just published 0.0054
C8_Witness ==
    /\ last.op = "process_frame"
    /\ cal_run.collected = 300
    /\ cal_run.writes = 1
    /\ ~cells.calibration_mode
    /\ p.calibration_samples.len = 0
    /\ cells.volume_level = 20
    /\ cells.calibration_result = 54

\* C9 as stated: calibration_mode is cleared within 300 process_frame calls
\* of valid shape after it was set, whatever the bypass state.
C9_ClearedWithin300Calls ==
    cells.calibration_mode => cal_run.calls < 300

\* C9: calibration_mode is cleared by the processor within 300
\* process_frame calls of valid shape that find the bypass state Active,
\* FadingOut or FadingIn; calls that find it Bypassed collect nothing, and
\* the mode stays set through any number of them.
C9_ClearedWithin300Analysed ==
    /\ cells.calibration_mode => cal_run.collected < 300
    /\ cal_run.collected <= cal_run.calls
    /\ (last.op = "process_frame" /\ last.accepted /\ last.before = "Bypassed"
            /\ cal_run.calls > 0 /\ cal_run.writes = 0) => cells.calibration_mode

\* a run that met a bypassed frame has ended with its 301st valid call,
\* publishing the floor value
C9_Witness ==
    /\ ~cells.calibration_mode
    /\ cal_run.calls = 301
    /\ cal_run.collected = 300
    /\ cal_run.writes = 1
    /\ cells.calibration_result = 5 * (Scale \div 1000)

(* ------------------------------------------------------------------ *)
(* FrameAdapter                                                       *)
(* ------------------------------------------------------------------ *)
\* FrameAdapter::new: the capacity of both ring buffers
buffer_size == FRAME_SIZE * 4 * 2

\* left[0], right[0], left[1], right[1], ... up to the shorter length
Interleave(left, right) ==
    [k \in 1..(2 * Min(Len(left), Len(right))) |->
        IF k % 2 = 1 THEN left[(k + 1) \div 2] ELSE right[k \div 2]]

\* try_push into a buffer that holds one sample less
TryPushAll_OddCapacity(rb, samples) ==
    rb \o SubSeq(samples, 1, Min(Len(samples), buffer_size - 1 - Len(rb)))

\* try_push of each sample in turn with the result ignored: a sample that
\* finds the buffer full is dropped
TryPushAll(rb, samples) ==
    rb \o SubSeq(samples, 1, Min(Len(samples), buffer_size - Len(rb)))

\* FRAME_SIZE times try_pop().unwrap_or(0.0) for left and for right: the
\* two frames, the buffer left over, and whether a pop found nothing
PopFrame(rb) ==
    [left |-> [j \in 1..FRAME_SIZE |->
                 IF 2 * j - 1 <= Len(rb) THEN rb[2 * j - 1] ELSE 0],
     right |-> [j \in 1..FRAME_SIZE |->
                 IF 2 * j <= Len(rb) THEN rb[2 * j] ELSE 0],
     rest |-> SubSeq(rb, Min(2 * FRAME_SIZE, Len(rb)) + 1, Len(rb)),
     padded |-> Len(rb) < 2 * FRAME_SIZE]

\* a loop condition that takes any queued sample for a frame
FrameQueued_Any(rb) == Len(rb) >= 1

\* a loop condition that waits for two frames
FrameQueued_TwoFrames(rb) == Len(rb) >= FRAME_SIZE * 4

\* process_available: the loop condition
FrameQueued(rb) == Len(rb) >= FRAME_SIZE * 2

\* the process_frame call of process_available on one popped frame
AdapterCall(frame, e) ==
    Call(<<frame.left, frame.right>>, 2, e[1], e[2], e[3])

\* FrameAdapter::process_available on the adapter and processor of st,
\* counting the processor calls
RECURSIVE FrameAdapter_process_available(_, _)
FrameAdapter_process_available(st, e) ==
    IF ~FrameQueued(st.rb_in) THEN st
    ELSE Let(PopFrame(st.rb_in), LAMBDA frame :
         Let(VoidProcessor_process_frame(st.p, st.c, st.chan, AdapterCall(frame, e)),
             LAMBDA r :
             FrameAdapter_process_available(
                 [p |-> r.p, c |-> r.c, chan |-> r.chan,
                  rb_in |-> frame.rest,
                  rb_out |-> TryPushAll(st.rb_out, Interleave(r.out[1], r.out[2])),
                  calls |-> st.calls + 1,
                  padded |-> st.padded \/ frame.padded,
                  stored |-> st.stored \cup FrameStores(st.c, r)], e)))

\* pop_stereo into buffers of len pairs: the number of pairs popped
PopCount(rb, len) == Min(len, Len(rb) \div 2)

\* try_pop().unwrap_or(0.0): the sample and the buffer left
TryPop(rb) == IF Len(rb) > 0 THEN <<Head(rb), Tail(rb)>> ELSE <<0, rb>>

\* a pop loop that pops without looking at the occupancy
HasPair_Always(rb) == TRUE

\* pop_stereo, pop_mono: the test before each pair is popped
HasPair(rb) == Len(rb) >= 2

\* the loops of pop_stereo and pop_mono from index i on: st holds the
\* output queue, the pairs written so far and the count
RECURSIVE PopLoop(_, _, _)
PopLoop(st, len, i) ==
    IF i > len THEN st
    ELSE IF HasPair(st.rb)
         THEN PopLoop([rb |-> TryPop(TryPop(st.rb)[2])[2],
                       left |-> Append(st.left, TryPop(st.rb)[1]),
                       right |-> Append(st.right, TryPop(TryPop(st.rb)[2])[1]),
                       count |-> st.count + 1], len, i + 1)
         ELSE PopLoop([st EXCEPT !.left = Append(@, 0), !.right = Append(@, 0)],
                      len, i + 1)

\* FrameAdapter::pop_stereo into left and right of len samples each
FrameAdapter_pop_stereo(rb, len) ==
    PopLoop([rb |-> rb, left |-> <<>>, right |-> <<>>, count |-> 0], len, 1)

\* FrameAdapter::pop_mono into out of len samples: (l + r) * 0.5
FrameAdapter_pop_mono(rb, len) ==
    Let(FrameAdapter_pop_stereo(rb, len), LAMBDA st :
        [rb |-> st.rb, count |-> st.count,
         out |-> [i \in 1..len |-> Mul(st.left[i] + st.right[i], Scale \div 2)]])

(* ------------------------------------------------------------------ *)
(* Specification: a plugin host drives the adapter                    *)
(* ------------------------------------------------------------------ *)
\* what the adapter's last operation found and did
AdapterOp(op, calls, padded) ==
    [op |-> op, in_before |-> rb_in, out_before |-> rb_out, calls |-> calls,
     padded |-> padded]

\* a push of given sample pairs
PushOp(op, given) ==
    [op |-> op, in_before |-> rb_in, out_before |-> rb_out, calls |-> 0,
     padded |-> FALSE, given |-> given]

\* a pop asked for len samples: what it returned and wrote
PopOp(op, len, count, left, right) ==
    [op |-> op, in_before |-> rb_in, out_before |-> rb_out, calls |-> 0,
     padded |-> FALSE, len |-> len, count |-> count, left |-> left,
     right |-> right]

\* host block sizes in sample pairs: half a frame
\* (test_partial_frame_does_not_process) and whole frames from none to more
\* than the ring buffer holds
BlockSizes == {FRAME_SIZE \div 2} \cup {n * FRAME_SIZE : n \in 0..MaxPushFrames}

\* the host feeds the adapter through one of the two push methods: what is
\* queued came through the same method as the block that follows it
QueuedAs(right) == IF rb_in = <<>> THEN TRUE ELSE rb_in[Len(rb_in)] = right

\* push_stereo_interleaved of a block of a quiet signal, left 0.01 and
\* right 0.006
PushStereo ==
    /\ QueuedAs(60)
    /\ \E n \in BlockSizes :
          /\ rb_in' = TryPushAll(rb_in, Interleave([j \in 1..n |-> 100],
                                                   [j \in 1..n |-> 60]))
          /\ last' = PushOp("push_stereo_interleaved", n)
    /\ UNCHANGED <<p, cells, chan, out, inp, gated, quiet_run, hold, fed, cal_run,
                   gui, rb_out, stores, aec, th, host>>

\* push_mono of half a frame or a frame of the stereo signal's mean
\* (test_mono_duplication)
PushMono ==
    /\ QueuedAs(80)
    /\ \E n \in {FRAME_SIZE \div 2, FRAME_SIZE} :
          /\ rb_in' = TryPushAll(rb_in, Interleave([j \in 1..n |-> 80],
                                                   [j \in 1..n |-> 80]))
          /\ last' = PushOp("push_mono", n)
    /\ UNCHANGED <<p, cells, chan, out, inp, gated, quiet_run, hold, fed, cal_run,
                   gui, rb_out, stores, aec, th, host>>

\* process_available(processor, 1.0, 0.015, false); the processor's
\* observation variables are those of direct process_frame calls and stay
ProcessAvailable ==
    /\ \E r \in {FrameAdapter_process_available(
                    [p |-> p, c |-> cells, chan |-> chan, rb_in |-> rb_in,
                     rb_out |-> rb_out, calls |-> 0, padded |-> FALSE,
                     stored |-> {}],
                    <<"keep", FALSE, Scale>>)} :
          /\ p' = r.p
          /\ cells' = r.c
          /\ chan' = r.chan
          /\ rb_in' = r.rb_in
          /\ rb_out' = r.rb_out
          /\ last' = AdapterOp("process_available", r.calls, r.padded)
          /\ stores' = Recorded("audio", r.stored)
    /\ UNCHANGED <<out, inp, gated, quiet_run, hold, fed, cal_run, gui, aec, th, host>>

\* host buffer lengths of a pop: half a frame, a frame
PopSizes == {FRAME_SIZE \div 2, FRAME_SIZE}

\* pop_stereo into host buffers
PopStereo ==
    /\ \E len \in PopSizes :
       \E r \in {FrameAdapter_pop_stereo(rb_out, len)} :
          /\ rb_out' = r.rb
          /\ last' = PopOp("pop_stereo", len, r.count, r.left, r.right)
    /\ UNCHANGED <<p, cells, chan, out, inp, gated, quiet_run, hold, fed, cal_run,
                   gui, rb_in, stores, aec, th, host>>

\* pop_mono into a host buffer
PopMono ==
    /\ \E len \in PopSizes :
       \E r \in {FrameAdapter_pop_mono(rb_out, len)} :
          /\ rb_out' = r.rb
          /\ last' = PopOp("pop_mono", len, r.count, r.out, r.out)
    /\ UNCHANGED <<p, cells, chan, out, inp, gated, quiet_run, hold, fed, cal_run,
                   gui, rb_in, stores, aec, th, host>>

NextAdapter == PushStereo \/ PushMono \/ ProcessAvailable \/ PopStereo \/ PopMono

SpecAdapter == Init /\ [][NextAdapter]_vars

\* C10: process_available calls the processor once for each complete frame
\* of FRAME_SIZE sample pairs queued on entry and never on a frame padded
\* out from a partial one; with less than a frame queued it makes no call
\* and leaves both queues as they were; on return less than one frame of
\* samples remains in the input queue.
C10_WholeFramesOnly ==
    last.op = "process_available" =>
        /\ last.calls = Len(last.in_before) \div (FRAME_SIZE * 2)
        /\ ~last.padded
        /\ rb_in = SubSeq(last.in_before, last.calls * FRAME_SIZE * 2 + 1,
                          Len(last.in_before))
        /\ Len(rb_in) < FRAME_SIZE * 2
        /\ Len(last.in_before) < FRAME_SIZE * 2 =>
              /\ last.calls = 0
              /\ rb_out = last.out_before

\* two complete frames were processed and a partial one stays queued
C10_Witness ==
    /\ last.op = "process_available"
    /\ last.calls >= 2
    /\ Len(rb_in) > 0
    /\ Len(rb_out) > Len(last.out_before)

PushOps == {"push_stereo_interleaved", "push_mono"}

\* C11: whole frames pushed into an empty adapter and drained by one
\* process_available call come out frame for frame: N frames of FRAME_SIZE
\* pairs pushed, N processor calls, N * FRAME_SIZE pairs ready to pop.
C11_FramesInFramesOut ==
    [][(/\ last.op \in PushOps
        /\ last.in_before = <<>>
        /\ last.out_before = <<>>
        /\ last.given % FRAME_SIZE = 0
        /\ last'.op = "process_available")
       => /\ last'.calls = last.given \div FRAME_SIZE
          /\ Len(rb_out') = 2 * last.given]_vars

\* C12: a push enqueues every sample pair it is given whatever is queued,
\* and process_available enqueues every frame the processor produced.
C12_NothingDiscarded ==
    [][/\ last'.op \in PushOps => Len(rb_in') = Len(rb_in) + 2 * last'.given
       /\ last'.op = "process_available" =>
              Len(rb_out') = Len(rb_out) + last'.calls * FRAME_SIZE * 2]_vars

PopOps == {"pop_stereo", "pop_mono"}

\* the pair of rb at position i, as the pop writes it
Popped(op, rb, i) ==
    IF op = "pop_stereo" THEN <<rb[2 * i - 1], rb[2 * i]>>
    ELSE <<Mul(rb[2 * i - 1] + rb[2 * i], Scale \div 2),
           Mul(rb[2 * i - 1] + rb[2 * i], Scale \div 2)>>

\* C13: a pop asked for len samples with k pairs queued returns min(len, k),
\* writes the oldest min(len, k) pairs in queue order (pop_mono their mean),
\* zeroes the rest of the host buffer and removes exactly the pairs it
\* returned.
C13_PopDrainsOrZeroFills ==
    last.op \in PopOps =>
        /\ last.count = Min(last.len, Len(last.out_before) \div 2)
        /\ Len(last.left) = last.len /\ Len(last.right) = last.len
        /\ \A i \in 1..last.len :
              <<last.left[i], last.right[i]>> =
                  IF i <= last.count THEN Popped(last.op, last.out_before, i)
                  ELSE <<0, 0>>
        /\ rb_out = SubSeq(last.out_before, 2 * last.count + 1, Len(last.out_before))

\* a pop that ran dry part way: it returned some pairs, one of them not
\* silent, and zero-filled the rest
C13_Witness ==
    /\ last.op \in PopOps
    /\ 0 < last.count /\ last.count < last.len
    /\ \E i \in 1..last.count : last.left[i] # 0 /\ last.right[i] # last.left[i]

(* ------------------------------------------------------------------ *)
(* Specification: the application's two sides store to the cells      *)
(* ------------------------------------------------------------------ *)
\* the audio loop reports the jitter every 50th frame, after its
\* process_updates call and before its process_frame call
ReportJitter ==
    /\ last.op = "process_updates"
    /\ cells' = [cells EXCEPT !.jitter_ewma_us = 120]
    /\ last' = [NoOp EXCEPT !.op = "jitter", !.before = p.bypass_state]
    /\ stores' = Recorded("audio", {"jitter_ewma_us"})
    /\ UNCHANGED <<p, chan, out, inp, gated, quiet_run, hold, fed, cal_run>>
    /\ UNCHANGED hostVars

\* the application's processor: VoidProcessor::new(1, ..), every store recorded
InitCells ==
    InitState(VoidProcessor_new(1, 2, <<0, 0, 0>>, 7000, FALSE),
              VoidProcessor_new_cells(2, <<0, 0, 0>>, 7000), TRUE)

\* the control surface is followed through one calibration run in room
\* noise of 0.002 and then through its other controls
Idle == ~gui.is_calibrating /\ cells.calibration_result > 0

NextCells ==
    \/ cells.calibration_result = 0 /\ ClickCalibrate
    \/ CheckCalibrationResult
    \/ Idle /\ StoreBypass
    \/ Idle /\ StoreVad
    \/ Idle /\ StoreEqLow
    \/ Idle /\ StoreEqEnabled
    \/ Idle /\ StoreAgcEnabled
    \/ VoidProcessor_process_updates(p, cells) # p /\ ProcessUpdates
    \/ ReportJitter
    \/ /\ gui.is_calibrating
       /\ ProcessFrame([Call(<<ConstFrame(20)>>, 1, "keep", FALSE, Scale)
                           EXCEPT !.gate_threshold = cells.gate_threshold])

SpecCells == InitCells /\ [][NextCells]_vars

\* the cells the claim gives to the audio thread
AudioCells == {"volume_level", "jitter_ewma_us", "calibration_result"}

StoredBy(side) == {s[2] : s \in {t \in stores.by : t[1] = side}}

\* C14: the audio thread stores only to volume_level, jitter_ewma_us and
\* calibration_result, the control surface only to the other cells, and no
\* cell is stored to by both.
C14_SingleWriter ==
    /\ StoredBy("audio") \subseteq AudioCells
    /\ StoredBy("control") \cap AudioCells = {}
    /\ StoredBy("audio") \cap StoredBy("control") = {}

\* C14 as the code has it: calibration_mode is stored to by both sides, set
\* by the control surface and cleared by process_frame; every other cell has
\* one writing side, the audio thread for volume_level, jitter_ewma_us and
\* calibration_result and the control surface for the rest.
C14_SingleWriterButMode ==
    /\ [](/\ StoredBy("audio") \subseteq AudioCells \cup {"calibration_mode"}
          /\ StoredBy("control") \cap AudioCells = {}
          /\ StoredBy("audio") \cap StoredBy("control") \subseteq {"calibration_mode"})
    /\ [][cells'.calibration_mode # cells.calibration_mode =>
            IF cells'.calibration_mode THEN last'.op = "click"
            ELSE last'.op = "process_frame"]_vars

\* both sides have stored to calibration_mode, and each side to cells of its own
C14_Witness ==
    /\ {"volume_level", "jitter_ewma_us", "calibration_result", "calibration_mode"}
           \subseteq StoredBy("audio")
    /\ {"calibration_mode", "gate_threshold", "bypass_enabled", "eq_low_gain"}
           \subseteq StoredBy("control")

(* ------------------------------------------------------------------ *)
(* Specification: echo cancellation, in the processor and on its own  *)
(* ------------------------------------------------------------------ *)
\* the speaker reference of a call: one channel at 0.01
SpeakerRefs == [some |-> TRUE, frames |-> <<QuietFrame>>]

\* loud microphone frames with a speaker reference, the engine succeeding
\* or failing
EchoCalls(channels) ==
    {[Call(i, channels, "keep", FALSE, Scale)
        EXCEPT !.refs = SpeakerRefs, !.aec = o] :
        i \in Inputs(channels, {LoudFrame}), o \in AecOutcomes}

\* EchoCanceller::process_frame on an echo canceller of its own
AecProcessFrame ==
    /\ \E o \in AecOutcomes, mic \in {LoudFrame, QuietFrame} :
       \E r \in {EchoCanceller_process_frame(o, mic, QuietFrame)} :
          last' = [op |-> "aec_process_frame", outcome |-> o, mic_input |-> mic,
                   speaker_ref |-> QuietFrame, ok |-> r.ok, output |-> r.output,
                   before |-> aec]
    /\ aec' = [aec EXCEPT !.frames = Min(@ + 1, MaxAecFrames)]
    /\ UNCHANGED <<p, cells, chan, out, inp, gated, quiet_run, hold, fed, cal_run,
                   gui, rb_in, rb_out, stores, th, host>>

\* EchoCanceller::reset, the rebuild succeeding or failing
AecReset ==
    /\ \E built \in AecOutcomes :
       \E r \in {EchoCanceller_reset(aec, built)} :
          /\ aec' = r.aec
          /\ last' = [op |-> "aec_reset", built |-> built, ok |-> r.ok,
                      before |-> aec,
                      retry |-> IF last.op = "aec_reset" THEN ~last.ok ELSE FALSE]
    /\ UNCHANGED <<p, cells, chan, out, inp, gated, quiet_run, hold, fed, cal_run,
                   gui, rb_in, rb_out, stores, th, host>>

\* VoidProcessor::new(channels, 2, (0, 0, 0), 0.7, true)
InitEcho ==
    \E channels \in 1..MaxChannels :
        InitWith(VoidProcessor_new(channels, 2, <<0, 0, 0>>, 7000, TRUE),
                 VoidProcessor_new_cells(2, <<0, 0, 0>>, 7000))

\* frames follow the audio loop's process_updates; AGC is switched and the
\* canceller of its own is exercised before the processor is fed
NextEcho ==
    \/ StoreBypass
    \/ fed.frames = 0 /\ StoreAgcEnabled
    \/ VoidProcessor_process_updates(p, cells) # p /\ ProcessUpdates
    \/ /\ VoidProcessor_process_updates(p, cells) = p
       /\ \E call \in EchoCalls(p.channels) : ProcessFrame(call)
    \/ fed.frames = 0 /\ AecProcessFrame
    \/ fed.frames = 0 /\ AecReset

SpecEcho == InitEcho /\ [][NextEcho]_vars

\* the place of a stage in the order of the claim
Rank(stage) ==
    CASE stage = "echo_cancel" -> 1
      [] stage = "denoise" -> 2
      [] stage = "blend" -> 3
      [] stage = "gate_analysis" -> 4
      [] stage = "gate_apply" -> 5
      [] stage = "eq" -> 6
      [] stage = "agc" -> 7
      [] stage = "crossfade" -> 8
      [] stage = "spectrum" -> 9

\* two stage runs bound by the order: on the same channel, or one of them
\* on all channels
Ordered(e, f) == e[2] = f[2] \/ e[2] = 0 \/ f[2] = 0

\* C15: in a process_frame call of valid shape a stage that comes earlier
\* in the order echo-cancel, denoise, blend, gate analysis, gate apply, EQ,
\* AGC, crossfade, spectrum runs earlier on every channel, and the stages on
\* all channels run after the earlier per-channel stages of every channel.
C15_StageOrder ==
    (last.op = "process_frame" /\ last.accepted) =>
        \A a, b \in DOMAIN last.stages :
            (/\ Rank(last.stages[a][1]) < Rank(last.stages[b][1])
             /\ Ordered(last.stages[a], last.stages[b])) => a < b

\* a call on two channels that ran all nine stages
C15_Witness ==
    /\ last.op = "process_frame" /\ last.accepted
    /\ p.channels = 2
    /\ {e[1] : e \in {last.stages[a] : a \in DOMAIN last.stages}} =
           {"echo_cancel", "denoise", "blend", "gate_analysis", "gate_apply", "eq",
            "agc", "crossfade", "spectrum"}
    /\ last.before \in {"FadingOut", "FadingIn"}

\* C18: when the engine reports an error EchoCanceller::process_frame
\* returns false with mic_input as its output, and true with the engine's
\* output otherwise; a process_frame call whose engine failed leaves the
\* processor and the output buffers as the same call without a speaker
\* reference leaves them, that is, it goes on with the raw microphone frame.
C18_EchoFallback ==
    /\ [](last.op = "aec_process_frame" =>
            IF last.outcome = "err"
            THEN ~last.ok /\ last.output = last.mic_input
            ELSE /\ last.ok
                 /\ last.output = [j \in 1..FRAME_SIZE |->
                                      last.mic_input[j] - last.speaker_ref[j]])
    /\ [][(/\ last'.op = "process_frame"
           /\ last'.accepted
           /\ last'.call.refs.some
           /\ last'.call.aec = "err")
          => \E r \in {VoidProcessor_process_frame(
                          p, cells, chan, [last'.call EXCEPT !.refs = NoRefs])} :
                /\ out' = r.out
                /\ p' = r.p
                /\ cells' = r.c]_vars

\* the engine failed in a call that found the gate open: the microphone
\* frame came through
C18_Witness ==
    /\ last.op = "process_frame" /\ last.accepted
    /\ last.call.refs.some /\ last.call.aec = "err"
    /\ "echo_cancel" \in {last.stages[a][1] : a \in DOMAIN last.stages}
    /\ last.before = "Active"
    /\ p.gate_open
    /\ ~IsZero(out[1])

\* C19: EchoCanceller::reset returns true with a fresh engine in place when
\* the rebuild succeeds, and false with the engine it had when the rebuild
\* fails.
C19_ResetKeepsOnFailure ==
    last.op = "aec_reset" =>
        IF last.built = "ok" THEN last.ok /\ aec = FreshEngine
        ELSE ~last.ok /\ aec = last.before

\* a reset retried after a failed one replaced an engine that had been used
C19_Witness ==
    /\ last.op = "aec_reset"
    /\ last.retry
    /\ last.ok
    /\ last.before.frames > 0
    /\ aec = FreshEngine

\* C16: a process_frame call made in state Bypassed copies every input
\* channel to its output channel and leaves gate_open, the attack and release
\* counters, fade_position, volume_level, the calibration buffer, mode and
\* result, the noise-floor tracker, the EQ filters and the AGC limiter as
\* they were; the state stays Bypassed.
C16_BypassedPassthrough ==
    [][(/\ last'.op = "process_frame"
        /\ last'.accepted
        /\ p.bypass_state = "Bypassed")
       => /\ out' = last'.call.input
          /\ p'.gate_open = p.gate_open
          /\ p'.samples_since_close = p.samples_since_close
          /\ p'.samples_since_open = p.samples_since_open
          /\ p'.fade_position = p.fade_position
          /\ p'.calibration_samples = p.calibration_samples
          /\ p'.noise_floor_tracker = p.noise_floor_tracker
          /\ p'.eq = p.eq
          /\ p'.agc_limiter = p.agc_limiter
          /\ cells'.volume_level = cells.volume_level
          /\ cells'.calibration_mode = cells.calibration_mode
          /\ cells'.calibration_result = cells.calibration_result
          /\ p'.bypass_state = "Bypassed"]_vars

\* a Bypassed call made in the middle of a calibration run: samples had
\* been collected, the mode is still set and the frame came through
C16_Witness ==
    /\ last.op = "process_frame" /\ last.accepted
    /\ last.before = "Bypassed"
    /\ p.bypass_state = "Bypassed"
    /\ cells.calibration_mode
    /\ p.calibration_samples # EmptySamples
    /\ cells.volume_level > 0
    /\ out = last.call.input
    /\ ~IsZero(out[1])

(* ------------------------------------------------------------------ *)
(* The spectrum channel: the audio loop's processor on one end, the    *)
(* control surface's receiver on the other                             *)
(* ------------------------------------------------------------------ *)

\* the control surface's update drains the channel: while let Ok(..) =
\* rx.try_recv()
DrainSpectrum ==
    /\ chan.connected
    /\ chan.len > 0
    /\ chan' = [chan EXCEPT !.len = 0]
    /\ last' = [NoOp EXCEPT !.op = "drain_spectrum"]
    /\ UNCHANGED <<p, cells, out, inp, gated, quiet_run, hold, fed, cal_run,
                   stores>>
    /\ UNCHANGED hostVars

\* the receiver is dropped; a bounded crossbeam channel keeps the pairs
\* that were queued, so a full channel stays full
DropReceiver ==
    /\ chan.connected
    /\ chan' = [chan EXCEPT !.connected = FALSE]
    /\ last' = [NoOp EXCEPT !.op = "drop_receiver"]
    /\ UNCHANGED <<p, cells, out, inp, gated, quiet_run, hold, fed, cal_run,
                   stores>>
    /\ UNCHANGED hostVars

\* frames of the audio loop: quiet or loud, the FFT succeeding or not
SpectrumCalls ==
    {[c EXCEPT !.fft_ok = ok] :
        c \in ValidCalls(1, {QuietFrame, LoudFrame}, {<<"keep", FALSE, Scale>>}),
        ok \in BOOLEAN}

\* the audio loop's processor: one channel, the spectrum sender set
InitSpectrum ==
    InitWith([VoidProcessor_new(1, 2, <<0, 0, 0>>, 7000, FALSE)
                  EXCEPT !.spectrum_sender = TRUE],
             VoidProcessor_new_cells(2, <<0, 0, 0>>, 7000))

NextSpectrum ==
    \/ \E call \in SpectrumCalls : ProcessFrame(call)
    \/ DrainSpectrum
    \/ DropReceiver

SpecSpectrum == InitSpectrum /\ [][NextSpectrum]_vars

\* a call that reaches the emission: the throttle counter wraps, the sender
\* is set and both spectra were computed
EmissionAttempt ==
    /\ last'.op = "process_frame" /\ last'.accepted
    /\ p'.spectrum_frame_counter = 0
    /\ p.spectrum_sender
    /\ last'.call.fft_ok

\* C17: once the receiver of the spectrum channel is gone, the next emission
\* attempt clears spectrum_sender, whatever number of pairs the channel
\* held, and a cleared sender stays cleared and queues nothing.
C17_GivesUpOnDroppedReceiver ==
    /\ [][(EmissionAttempt /\ ~chan.connected) => ~p'.spectrum_sender]_vars
    /\ [][~p.spectrum_sender => ~p'.spectrum_sender /\ chan'.len <= chan.len]_vars

\* the same for a channel that is not full when the attempt is made
C17_GivesUpUnlessFull ==
    /\ [][(EmissionAttempt /\ ~chan.connected /\ chan.len < SPECTRUM_CAP)
          => ~p'.spectrum_sender]_vars
    /\ [][~p.spectrum_sender => ~p'.spectrum_sender /\ chan'.len <= chan.len]_vars

(* ------------------------------------------------------------------ *)
(* Calls of any shape                                                  *)
(* ------------------------------------------------------------------ *)

\* buffers that are not FRAME_SIZE samples long: one short, one long, empty
OddFrames == {SubSeq(LoudFrame, 1, FRAME_SIZE - 1), LoudFrame \o <<0>>, <<>>}

\* calls with the processor's channel count whose input buffers have
\* another length than FRAME_SIZE
OddLengthCalls(channels) ==
    {Call([i \in 1..channels |-> f], channels, "keep", FALSE, Scale) : f \in OddFrames}

\* a panic ends the audio thread: no call follows it
NextShape ==
    /\ last.op # "panic"
    /\ \/ \E call \in ValidCalls(p.channels, {QuietFrame, LoudFrame}, Engines) :
              ProcessFrame(call)
       \/ \E call \in MismatchCalls(p.channels) : ProcessFrame(call)
       \/ \E call \in OddLengthCalls(p.channels) : ProcessFramePanics(call)

SpecShape == Init /\ [][NextShape]_vars

\* C20: process_frame returns normally for any number of channels and any
\* length of the buffers handed to it; no call ends in a panic.
C20_NeverPanics == last.op # "panic"

\* what does hold: a call of the wrong channel count returns with every
\* output buffer silenced and the processor as it was
C20_CountMismatchReturns ==
    [][(last'.op = "process_frame" /\ ~last'.accepted)
       => /\ p' = p
          /\ \A i \in 1..Len(out') : IsZero(out'[i])]_vars

(* ------------------------------------------------------------------ *)
(* The application's audio thread (AudioEngine::start)                 *)
(* ------------------------------------------------------------------ *)

\* frames the input stream delivers in a run that is followed
MaxThreadFrames == 12

\* let buffer_size = (SAMPLE_RATE as usize) / 10: the capacity of each ring
RingCapacity == SAMPLE_RATE \div 10

\* if retries > 100 { break; }
OutputRetries == 100

\* if frames_since_jitter_report >= 50
JitterReportEvery == 50

\* a loop that never looks at the run flag
LoopTop_Ignores(t) == "body"

\* if !run_flag.load(Ordering::Relaxed) { break; }
LoopTop(t) == IF ~t.is_running THEN "exited" ELSE "body"

\* a write that pushes the samples that fit
WriteFrame_Partial(out_len) ==
    IF out_len + FRAME_SIZE <= RingCapacity THEN out_len + FRAME_SIZE
    ELSE RingCapacity

\* if prod_out.vacant_len() >= FRAME_SIZE { prod_out.push_slice(&output_frame); }
WriteFrame(out_len) ==
    IF RingCapacity - out_len >= FRAME_SIZE THEN out_len + FRAME_SIZE ELSE out_len

\* the call the audio thread makes: one channel, no reference, the live
\* values of the cells
ThreadCall(c) ==
    [Call(<<QuietFrame>>, 1, "keep", FALSE, c.suppression_strength)
        EXCEPT !.gate_threshold = c.gate_threshold,
               !.dynamic_threshold_enabled = c.dynamic_threshold_enabled]

\* the top of the loop: the run flag is read
ThreadCheck ==
    /\ th.pc = "top"
    /\ th' = [th EXCEPT !.pc = LoopTop(th)]
    /\ last' = [NoOp EXCEPT !.op = "thread_check", !.before = p.bypass_state]
    /\ UNCHANGED <<p, cells, chan, out, inp, gated, quiet_run, hold, fed, cal_run,
                   gui, rb_in, rb_out, stores, aec, host>>

\* one pass of the loop from process_updates to the return of process_frame,
\* or to the sleep when the input ring holds less than a frame
ThreadBody ==
    /\ th.pc = "body"
    /\ \E q \in {VoidProcessor_process_updates(p, cells)} :
        IF th.in_len >= FRAME_SIZE
        THEN \E report \in {th.jitter_frames + 1 >= JitterReportEvery} :
             \E c \in {IF report THEN [cells EXCEPT !.jitter_ewma_us = 120]
                       ELSE cells} :
             \E r \in {VoidProcessor_process_frame(q, c, chan, ThreadCall(c))} :
                /\ p' = r.p
                /\ cells' = r.c
                /\ chan' = r.chan
                /\ out' = r.out
                /\ inp' = ThreadCall(c).input
                /\ gated' = r.gated
                /\ last' = [op |-> "process_frame", n_in |-> 1, n_out |-> 1,
                            accepted |-> r.accepted, analysed |-> r.analysed,
                            above |-> r.above, before |-> q.bypass_state,
                            open |-> q.gate_open, fade |-> q.fade_position,
                            call |-> ThreadCall(c),
                            stages |-> StageTrace(q, ThreadCall(c))]
                /\ th' = [th EXCEPT !.pc = "write",
                                    !.in_len = @ - FRAME_SIZE,
                                    !.retries = 0,
                                    !.jitter_frames = IF report THEN 0 ELSE @ + 1,
                                    !.after_drop = IF th.is_running THEN @
                                                   ELSE Min(@ + 1, 2),
                                    !.wrote = "none"]
        ELSE /\ p' = q
             /\ th' = [th EXCEPT !.pc = "sleep"]
             /\ last' = [NoOp EXCEPT !.op = "process_updates",
                                     !.before = p.bypass_state]
             /\ UNCHANGED <<cells, chan, out, inp, gated>>
    /\ UNCHANGED <<quiet_run, hold, fed, cal_run, gui, rb_in, rb_out, stores, aec, host>>

\* thread::sleep(Duration::from_micros(200)) returns
ThreadWake ==
    /\ th.pc = "sleep"
    /\ th' = [th EXCEPT !.pc = "top"]
    /\ last' = [NoOp EXCEPT !.op = "thread_wake", !.before = p.bypass_state]
    /\ UNCHANGED <<p, cells, chan, out, inp, gated, quiet_run, hold, fed, cal_run,
                   gui, rb_in, rb_out, stores, aec, host>>

\* one turn of the retry loop: the output ring has no room for a frame
ThreadYield ==
    /\ th.pc = "write"
    /\ RingCapacity - th.out_len < FRAME_SIZE
    /\ th' = [th EXCEPT !.retries = @ + 1,
                        !.pc = IF th.retries + 1 > OutputRetries THEN "push"
                               ELSE "write"]
    /\ last' = [NoOp EXCEPT !.op = "thread_yield", !.before = p.bypass_state]
    /\ UNCHANGED <<p, cells, chan, out, inp, gated, quiet_run, hold, fed, cal_run,
                   gui, rb_in, rb_out, stores, aec, host>>

\* the retry loop is left: the frame is pushed whole or dropped
ThreadWrite ==
    /\ \/ th.pc = "write" /\ RingCapacity - th.out_len >= FRAME_SIZE
       \/ th.pc = "push"
    /\ th' = [th EXCEPT !.pc = "top",
                        !.out_len = WriteFrame(th.out_len),
                        !.wrote = IF WriteFrame(th.out_len) = th.out_len
                                  THEN "dropped" ELSE "pushed"]
    /\ last' = [NoOp EXCEPT !.op = "thread_write", !.before = p.bypass_state]
    /\ UNCHANGED <<p, cells, chan, out, inp, gated, quiet_run, hold, fed, cal_run,
                   gui, rb_in, rb_out, stores, aec, host>>

\* the steps between two passes of the loop body
ThreadStep == ThreadCheck \/ ThreadWake \/ ThreadYield \/ ThreadWrite

\* the input stream's callback: let _ = prod_in.push_slice(data)
InputCallback ==
    /\ th.is_running
    /\ th.in_len < FRAME_SIZE
    /\ fed.frames < MaxThreadFrames
    /\ th' = [th EXCEPT !.in_len = Min(@ + FRAME_SIZE, RingCapacity)]
    /\ fed' = [fed EXCEPT !.frames = @ + 1]
    /\ last' = [NoOp EXCEPT !.op = "input_callback", !.before = p.bypass_state]
    /\ UNCHANGED <<p, cells, chan, out, inp, gated, quiet_run, hold, cal_run,
                   gui, rb_in, rb_out, stores, aec, host>>

\* the output stream's callback: cons_out.pop_slice(data), here of a device
\* that falls behind and takes a frame when the ring has no room for one
OutputCallback ==
    /\ th.is_running
    /\ RingCapacity - th.out_len < FRAME_SIZE
    /\ \E n \in {FRAME_SIZE \div 2, FRAME_SIZE} :
           th' = [th EXCEPT !.out_len = Max(@ - n, 0)]
    /\ last' = [NoOp EXCEPT !.op = "output_callback", !.before = p.bypass_state]
    /\ UNCHANGED <<p, cells, chan, out, inp, gated, quiet_run, hold, fed, cal_run,
                   gui, rb_in, rb_out, stores, aec, host>>

\* Drop for AudioEngine: is_running.store(false); the streams go with it
DropEngine ==
    /\ th.is_running
    /\ th' = [th EXCEPT !.is_running = FALSE]
    /\ last' = [NoOp EXCEPT !.op = "drop_engine", !.before = p.bypass_state]
    /\ UNCHANGED <<p, cells, chan, out, inp, gated, quiet_run, hold, fed, cal_run,
                   gui, rb_in, rb_out, stores, aec, host>>

\* the processor the audio thread owns
InitThread ==
    InitWith(VoidProcessor_new(1, 2, <<0, 0, 0>>, 7000, FALSE),
             VoidProcessor_new_cells(2, <<0, 0, 0>>, 7000))

NextThread ==
    \/ ThreadCheck
    \/ ThreadBody
    \/ ThreadWake
    \/ ThreadYield
    \/ ThreadWrite
    \/ InputCallback
    \/ OutputCallback
    \/ DropEngine

\* the scheduler lets the audio thread run: a sleep and a yield return, and
\* so do process_updates and process_frame, which hold no loop without a
\* bound and wait for nothing
SpecThread ==
    InitThread /\ [][NextThread]_vars /\ WF_vars(ThreadStep) /\ []<>(th.pc # "body")

\* C21: once is_running is false the audio thread leaves its loop, and it
\* starts at most one more frame before it does.
C21_TeardownCompletes ==
    /\ (~th.is_running) ~> (th.pc = "exited")
    /\ [](th.after_drop <= 1)
    /\ [](th.pc = "exited" => ~th.is_running)

\* the flag is cleared while the thread is in the output retry, or in the
\* input wait
C21_Witness ==
    /\ ~th.is_running
    /\ th.pc = "write"
    /\ RingCapacity - th.out_len < FRAME_SIZE
    /\ th.retries > 0
    /\ th.after_drop = 1

\* C22: after process_frame the audio thread yields at most 101 times; it
\* then pushes the whole frame if the output ring has room for it and drops
\* the whole frame otherwise, and goes back to the top of its loop.
C22_BoundedOutputRetry ==
    /\ [](th.retries <= OutputRetries + 1)
    /\ [][last'.op = "thread_write"
          => /\ th'.pc = "top"
             /\ th'.out_len - th.out_len \in {0, FRAME_SIZE}
             /\ (th'.out_len = th.out_len)
                    <=> (RingCapacity - th.out_len < FRAME_SIZE)
             /\ th'.out_len <= RingCapacity]_vars

\* a frame was dropped after 101 yields
C22_Witness ==
    /\ last.op = "thread_write"
    /\ th.retries = OutputRetries + 1
    /\ th.wrote = "dropped"
    /\ th.out_len = RingCapacity

(* ------------------------------------------------------------------ *)
(* NoiseFloorTracker fed on its own                                    *)
(* ------------------------------------------------------------------ *)

\* updates of a run with one RMS value, enough to go round the window
MaxFloorUpdates == 320
\* updates of a run with changing RMS values
MaxMixUpdates == 50
\* a run with changing values changes them every FloorBlock updates
FloorBlock == 10

\* the distance at which 0.05 of it falls below one unit of the arithmetic
FloorStep == Scale \div FLOOR_NEW

\* RMS values above 0.0001 whose twentieth the arithmetic holds exactly:
\* 0.002, 0.006, 0.01, 0.05, 0.08
FloorLevels == {FloorStep, 3 * FloorStep, 5 * FloorStep, 25 * FloorStep, 40 * FloorStep}
\* RMS values at or below 0.0001
NearZero == {0, FLOOR_MIN_RMS}

\* the values fed so far, oldest first
FloorFed == IF last.op = "floor_update" THEN last.hist ELSE <<>>

\* tracker.update(rms)
FloorUpdate(rms) ==
    /\ p' = [p EXCEPT !.noise_floor_tracker = NoiseFloorTracker_update(@, rms)]
    /\ last' = [op |-> "floor_update", rms |-> rms, hist |-> Append(FloorFed, rms),
                before |-> p.bypass_state]
    /\ UNCHANGED <<cells, chan, out, inp, gated, quiet_run, hold, fed, cal_run,
                   stores>>
    /\ UNCHANGED hostVars

\* the same value on every update
NextFloor ==
    \E rms \in FloorLevels :
        /\ Len(FloorFed) < MaxFloorUpdates
        /\ FloorFed # <<>> => rms = last.rms
        /\ FloorUpdate(rms)

SpecFloor == Init /\ [][NextFloor]_vars

\* values above and below 0.0001, held for FloorBlock updates each
NextFloorMix ==
    \E rms \in NearZero \cup {3 * FloorStep, 25 * FloorStep} :
        /\ Len(FloorFed) < MaxMixUpdates
        /\ Len(FloorFed) % FloorBlock # 0 => rms = last.rms
        /\ FloorUpdate(rms)

SpecFloorMix == Init /\ [][NextFloorMix]_vars

floor == p.noise_floor_tracker.current_floor

\* f2 lies between f and m, and nearer to m than f where the arithmetic
\* resolves the step
MovesToward(f, f2, m) ==
    /\ f < m => f <= f2 /\ f2 <= m /\ (m - f >= FloorStep => f2 > f)
    /\ f > m => m <= f2 /\ f2 < f
    /\ f = m => f2 = f

\* C23: fed the same RMS value v > 0.0001 on every update, floor() moves
\* toward v from the 10th update on and never crosses it; it goes on moving
\* until it is as close to v as the arithmetic resolves.
C23_ConstantFeedConverges ==
    [][last'.op = "floor_update"
       => IF Len(last'.hist) < FLOOR_WARMUP THEN floor' = floor
          ELSE MovesToward(floor, floor', last'.rms)]_vars

\* the floor has come up to 0.05 from 0.01, the window gone round
C23_Witness ==
    /\ last.op = "floor_update"
    /\ last.rms = 25 * FloorStep
    /\ Len(last.hist) > FLOOR_WINDOW
    /\ floor > last.rms - FloorStep
    /\ floor <= last.rms

\* the last 30 values fed, or all of them while they are fewer
Recent(hist) ==
    {hist[i] : i \in (Max(Len(hist) - FLOOR_RECENT, 0) + 1)..Len(hist)}
Live(hist) == {v \in Recent(hist) : v > FLOOR_MIN_RMS}
Smallest(S) == CHOOSE v \in S : \A w \in S : v <= w

\* C24 as stated: an update after which the recent window holds only values
\* at or below 0.0001 leaves floor() unchanged, and every other update moves
\* the floor toward the smallest recent value above 0.0001.
C24_NearZeroIgnored ==
    [][last'.op = "floor_update"
       => IF Live(last'.hist) = {} THEN floor' = floor
          ELSE MovesToward(floor, floor', Smallest(Live(last'.hist)))]_vars

\* C24: the same from the 10th update on; the first 9 updates leave floor()
\* unchanged whatever they are fed.
C24_NearZeroIgnoredAfterWarmup ==
    [][last'.op = "floor_update"
       => IF Live(last'.hist) = {} \/ Len(last'.hist) < FLOOR_WARMUP
          THEN floor' = floor
          ELSE MovesToward(floor, floor', Smallest(Live(last'.hist)))]_vars

\* 30 near-zero values in a row after values that had raised the floor
C24_Witness ==
    /\ last.op = "floor_update"
    /\ Len(last.hist) = MaxMixUpdates
    /\ Live(last.hist) = {}
    /\ floor > INITIAL_FLOOR

(* ------------------------------------------------------------------ *)
(* The gate's attack and the fade of a closing gate                    *)
(* ------------------------------------------------------------------ *)

\* the frame just analysed exceeded the threshold handed to the call, or
\* voice activity was detected in it
Exceeds ==
    \/ Rms(MonoMix(p.channels, inp')) > last'.call.gate_threshold
    \/ last'.call.is_speech

\* C25: a closed gate opens in a frame exactly if that frame's mono-mix RMS
\* exceeds the threshold or voice activity is detected in it; the frame's
\* 480 samples reach the 240-sample attack, so the first such frame opens
\* the gate, and samples_since_open and fade_position are 0 after it.
C25_GateAttack ==
    [][(AnalysedStep /\ ~p.gate_open)
       => /\ p'.gate_open <=> Exceeds
          /\ p'.gate_open => /\ p'.samples_since_close >= attack_samples
                             /\ p'.samples_since_close = FRAME_SIZE
                             /\ p'.samples_since_open = 0
                             /\ p'.fade_position = 0
          /\ ~p'.gate_open => p'.samples_since_close = 0]_vars

\* a gate that had closed after a release is opened by voice activity alone,
\* in a frame below the threshold, out of a fade that had begun
C25_Witness ==
    /\ last.op = "process_frame" /\ last.analysed
    /\ ~last.open
    /\ last.fade > 0
    /\ p.gate_open
    /\ last.call.is_speech
    /\ inp[1] = QuietFrame
    /\ fed.loud
    /\ p.fade_position = 0

\* the linear envelope of a closed gate at fade position pos: 1 - pos / 480,
\* and nothing once the fade is used up
Envelope(pos, sample) ==
    IF pos < fade_samples
    THEN Mul(sample, Scale - (pos * Scale) \div fade_samples)
    ELSE 0

\* C26: fade_position is between 0 and 480 (fade_samples) and is 0 whenever
\* the gate is open; a frame that leaves the gate closed advances it by one
\* per sample up to 480, where it stays, and puts the same linear envelope,
\* counted from the fade position the frame found, on every channel; the
\* frame in which the gate closes finds fade position 0, so its first sample
\* passes at full gain.
C26_FadePosition ==
    /\ [](/\ p.fade_position >= 0
          /\ p.fade_position <= fade_samples
          /\ p.gate_open => p.fade_position = 0)
    /\ [][(AnalysedStep /\ ~p'.gate_open)
          => /\ p'.fade_position = Min(p.fade_position + FRAME_SIZE, fade_samples)
             /\ p'.fade_position >= p.fade_position
             /\ \A i \in 1..p.channels : \A j \in 1..FRAME_SIZE :
                    gated'[i][j] = Envelope(p.fade_position + j - 1, inp'[i][j])
             /\ p.gate_open => /\ p.fade_position = 0
                               /\ \A i \in 1..p.channels :
                                      gated'[i][1] = inp'[i][1]]_vars

\* the gate of a two-channel processor has just closed on a quiet frame,
\* which left the gate stage faded from full gain
C26_Witness ==
    /\ last.op = "process_frame" /\ last.analysed
    /\ last.open
    /\ ~p.gate_open
    /\ p.channels = 2
    /\ p.fade_position = Min(FRAME_SIZE, fade_samples)
    /\ inp[2] = QuietFrame
    /\ gated[2][1] = QuietFrame[1]
    /\ gated[2][FRAME_SIZE] > 0
    /\ gated[2][FRAME_SIZE] < gated[2][1]

(* ------------------------------------------------------------------ *)
(* Fixed and dynamic threshold                                         *)
(* ------------------------------------------------------------------ *)

\* frames in dynamic mode that are followed after the run Init stands for
MaxDynFrames == 3
\* the length of the runs Init stands for is a multiple of this
DynRunUnit == 2 * FLOOR_WARMUP

\* the tracker after n updates with the same value, by halving (keeps the
\* evaluation shallow)
RECURSIVE FloorAfter(_, _, _)
FloorAfter(t, rms, n) ==
    IF n = 0 THEN t
    ELSE IF n = 1 THEN NoiseFloorTracker_update(t, rms)
    ELSE Let(FloorAfter(t, rms, n \div 2), LAMBDA u :
             FloorAfter(u, rms, n - n \div 2))

\* trackers of a processor that is new, that has heard 0.0005 for 60 frames
\* in dynamic mode, or 0.08 for 40 frames, and whose gate has closed since
DynTrackers ==
    {NoiseFloorTracker_new,
     FloorAfter(NoiseFloorTracker_new, 5, 3 * DynRunUnit),
     FloorAfter(NoiseFloorTracker_new, 40 * FloorStep, 2 * DynRunUnit)}

\* RMS levels on both sides of the thresholds in use: 0.004, 0.017, 0.0181,
\* 0.085
DynLevels == {40, 170, 181, 850}

\* mono calls in either mode, the threshold argument low or high
DynCalls ==
    {[Call(<<ConstFrame(v)>>, 1, "keep", FALSE, Scale)
        EXCEPT !.gate_threshold = thr, !.dynamic_threshold_enabled = dyn] :
        v \in DynLevels, thr \in {DEFAULT_GATE_THRESHOLD, 6 * DEFAULT_GATE_THRESHOLD},
        dyn \in BOOLEAN}

InitDyn ==
    \E t \in DynTrackers :
        InitWith([VoidProcessor_new(1, 2, <<0, 0, 0>>, 7000, FALSE)
                     EXCEPT !.noise_floor_tracker = t],
                 VoidProcessor_new_cells(2, <<0, 0, 0>>, 7000))

\* a frame or two in fixed mode, then frames in dynamic mode
NextDyn ==
    \E call \in DynCalls :
        /\ IF call.dynamic_threshold_enabled
           THEN p.noise_floor_tracker.count % DynRunUnit < MaxDynFrames
           ELSE fed.frames < 2 /\ p.noise_floor_tracker.count % DynRunUnit = 0
        /\ ProcessFrame(call)

SpecDyn == InitDyn /\ [][NextDyn]_vars

\* the RMS of the mono mix of the frame just handed in
FrameRms == Rms(MonoMix(p.channels, inp'))

\* C27: in fixed mode the gate decision compares the RMS with the
\* gate_threshold argument and the noise-floor tracker is left alone; in
\* dynamic mode the tracker is updated once with the frame's RMS and the
\* decision compares the RMS with floor x 1.5 + 0.003 clamped to
\* [0.005, 0.08], whatever the argument is.
C27_EffectiveThreshold ==
    [][AnalysedStep
       => IF last'.call.dynamic_threshold_enabled
          THEN /\ p'.noise_floor_tracker =
                      NoiseFloorTracker_update(p.noise_floor_tracker, FrameRms)
               /\ p'.noise_floor_tracker.write_idx =
                      (p.noise_floor_tracker.write_idx + 1) % FLOOR_WINDOW
               /\ last'.above <=>
                      FrameRms > Clamp(Mul(floor', DYN_FACTOR) + DYN_OFFSET,
                                       DYN_MIN, DYN_MAX)
          ELSE /\ p'.noise_floor_tracker = p.noise_floor_tracker
               /\ last'.above <=> FrameRms > last'.call.gate_threshold]_vars

\* a frame in dynamic mode that a low threshold argument would have let
\* through is held back by the upper clamp of the dynamic threshold
C27_Witness ==
    /\ last.op = "process_frame" /\ last.analysed
    /\ last.call.dynamic_threshold_enabled
    /\ last.call.gate_threshold = DEFAULT_GATE_THRESHOLD
    /\ inp[1] = ConstFrame(181)
    /\ ~last.above
    /\ Mul(floor, DYN_FACTOR) + DYN_OFFSET > DYN_MAX

(* ------------------------------------------------------------------ *)
(* The reference channels of a call                                    *)
(* ------------------------------------------------------------------ *)

\* a second speaker signal, told from the first by its level
OtherRef == ConstFrame(200)

\* None, Some(&[]), one reference, one reference for every channel
RefKinds(channels) ==
    {NoRefs,
     [some |-> TRUE, frames |-> <<>>],
     [some |-> TRUE, frames |-> <<QuietFrame>>],
     [some |-> TRUE, frames |-> [i \in 1..channels |->
                                    IF i = 1 THEN QuietFrame ELSE OtherRef]]}

\* loud and quiet microphone frames, the engine succeeding
RefCalls(channels) ==
    {[Call(i, channels, "keep", FALSE, Scale) EXCEPT !.refs = r] :
        i \in Inputs(channels, {LoudFrame, QuietFrame}), r \in RefKinds(channels)}

NextRefs == \E call \in RefCalls(p.channels) : ProcessFrame(call)

SpecRefs == InitEcho /\ [][NextRefs]_vars

\* the reference channel i of the last call is to be cancelled against:
\* its own, else the first, else none
RefFor(call, i) ==
    IF ~call.refs.some \/ call.refs.frames = <<>> THEN ZeroFrame
    ELSE IF i <= Len(call.refs.frames) THEN call.refs.frames[i]
    ELSE call.refs.frames[1]

\* C28: with an echo canceller constructed for every channel, channel i
\* goes to the denoiser with reference channel i removed when that is
\* supplied, with reference channel 0 removed when fewer references than
\* channels are supplied, and as it came when the call has no reference
\* (None or an empty set); the frame is processed in every case, and what
\* an open gate lets through is not silence.
C28_ReferenceChoice ==
    [][last'.op = "process_frame"
       => /\ last'.accepted /\ last'.analysed
          /\ \A i \in 1..p.channels :
                /\ gated'[i] = [j \in 1..FRAME_SIZE |->
                       IF p'.gate_open
                       THEN inp'[i][j] - RefFor(last'.call, i)[j]
                       ELSE Envelope(p.fade_position + j - 1,
                                     inp'[i][j] - RefFor(last'.call, i)[j])]
                /\ (p'.gate_open /\ inp'[i] # RefFor(last'.call, i))
                       => ~IsZero(out'[i])
                /\ <<"echo_cancel", i>> \in
                       {last'.stages[a] : a \in DOMAIN last'.stages}
                   <=> RefFor(last'.call, i) # ZeroFrame]_vars

\* one reference for two channels: the second channel was cancelled against
\* reference 0
C28_Witness ==
    /\ last.op = "process_frame" /\ last.accepted
    /\ p.channels = 2
    /\ Len(last.call.refs.frames) = 1
    /\ gated[2] = [j \in 1..FRAME_SIZE |-> LoudFrame[j] - QuietFrame[j]]
    /\ ~IsZero(out[2])

(* ------------------------------------------------------------------ *)
(* A fade in progress                                                 *)
(* ------------------------------------------------------------------ *)
Fading == {"FadingOut", "FadingIn"}

\* C29: a fading state lasts exactly one process_frame call of valid shape:
\* crossfade_pos is 0 when the call starts and crossfade_len when it ends,
\* never more, and the call leaves Bypassed after FadingOut and Active after
\* FadingIn. A store to bypass_enabled, a process_updates call and a rejected
\* process_frame call made during the fade leave state and position as they
\* are; a fade starts only in a process_updates call made in Active or
\* Bypassed.
C29_FadeLastsOneFrame ==
    /\ [](/\ p.crossfade_pos \in 0..crossfade_len
          /\ p.bypass_state \in Fading => p.crossfade_pos = 0)
    /\ [][/\ (p.bypass_state \in Fading /\ last'.op = "process_frame"
                                         /\ last'.accepted)
             => /\ p'.crossfade_pos = crossfade_len
                /\ p'.bypass_state = IF p.bypass_state = "FadingOut"
                                     THEN "Bypassed" ELSE "Active"
          /\ (p.bypass_state \in Fading /\ ~(last'.op = "process_frame"
                                             /\ last'.accepted))
             => /\ p'.bypass_state = p.bypass_state
                /\ p'.crossfade_pos = p.crossfade_pos
          /\ (p'.bypass_state \in Fading /\ p.bypass_state \notin Fading)
             => /\ last'.op = "process_updates"
                /\ p'.bypass_state = IF cells.bypass_enabled
                                     THEN "FadingOut" ELSE "FadingIn"]_vars

\* a fade out has just finished although bypass was switched off during it
C29_Witness ==
    /\ last.op = "process_frame" /\ last.accepted
    /\ last.before = "FadingOut"
    /\ p.bypass_state = "Bypassed" /\ p.crossfade_pos = crossfade_len
    /\ ~cells.bypass_enabled

(* ------------------------------------------------------------------ *)
(* The spectrum throttle                                              *)
(* ------------------------------------------------------------------ *)
\* the step is a process_frame call of valid shape
ValidFrameStep == last'.op = "process_frame" /\ last'.accepted

\* C30: spectrum_frame_counter stays in 0..3; it advances by one, wrapping
\* at 4, in every process_frame call of valid shape and in no other step, so
\* that it is 0 after the 4th, 8th, ... such call. A pair is queued only in
\* a call that wraps the counter, hence never in two consecutive calls, and
\* is queued there when the sender is set, both spectra were computed and
\* the channel is connected and has room. A call made on a full channel
\* leaves the channel and the sender as they are.
C30_SpectrumThrottle ==
    /\ [](/\ p.spectrum_frame_counter \in 0..(SPECTRUM_EVERY - 1)
          /\ chan.len \in 0..SPECTRUM_CAP)
    /\ [][/\ p'.spectrum_frame_counter =
                IF ValidFrameStep
                THEN (p.spectrum_frame_counter + 1) % SPECTRUM_EVERY
                ELSE p.spectrum_frame_counter
          /\ chan'.len > chan.len
             => /\ ValidFrameStep
                /\ p.spectrum_frame_counter = SPECTRUM_EVERY - 1
                /\ p'.spectrum_frame_counter = 0
                /\ chan'.len = chan.len + 1
          /\ (ValidFrameStep /\ p'.spectrum_frame_counter = 0
                /\ p.spectrum_sender /\ last'.call.fft_ok
                /\ chan.connected /\ chan.len < SPECTRUM_CAP)
             => chan'.len = chan.len + 1
          /\ (ValidFrameStep /\ chan.len = SPECTRUM_CAP)
             => /\ chan' = chan
                /\ p'.spectrum_sender = p.spectrum_sender]_vars

\* a call that wrapped the counter has ended on a full channel
C30_Witness ==
    /\ last.op = "process_frame" /\ last.accepted
    /\ last.call.fft_ok
    /\ p.spectrum_frame_counter = 0
    /\ p.spectrum_sender
    /\ chan.connected /\ chan.len = SPECTRUM_CAP

(* ------------------------------------------------------------------ *)
(* Specification: the limiter's gain under positive target levels     *)
(* ------------------------------------------------------------------ *)
\* target levels above 0: 0.01, the default 0.7, 3.0
AgcTargets == {100, 7000, 3 * Scale}

\* the frames handed to the limiter, every channel alike: silence, a quiet
\* frame, a loud one, one far over full scale
AgcInputs(channels) == Inputs(channels, {ZeroFrame, QuietFrame, LoudFrame, BigFrame})

NextAgc ==
    \/ \E t \in AgcTargets : SetTarget(t)
    \/ \E frames \in AgcInputs(p.channels) : LimiterFrame(frames)

SpecAgc == Init /\ [][NextAgc]_vars

\* the step is a LookaheadLimiter::process_frame call
LimiterStep == last'.op = "limiter" /\ last'.count # LimiterCount

\* g2 lies between g and t, a fraction coeff of the way from g to t
MovesBy(g, g2, t, coeff) ==
    /\ Min(g, t) <= g2 /\ g2 <= Max(g, t)
    /\ Abs(g2 - g) = Mul(Abs(t - g), coeff)

\* the gain the limiter aims at for a frame of the given RMS
TargetGain(target_level, rms) ==
    IF rms = 0 THEN AGC_MAX_GAIN ELSE Min(Div(target_level, rms), AGC_MAX_GAIN)

\* C31 as stated: every frame moves the gain toward min(target_level / RMS,
\* 3), by 0.1 of the distance when that target is below the gain and by
\* 0.005 of it when it is above.
C31_GainMovesEveryFrame ==
    [][LimiterStep =>
        LET g == p.agc_limiter.current_gain
            t == TargetGain(p.agc_limiter.target_level, Rms(LinkedMax(inp')))
        IN  MovesBy(g, p'.agc_limiter.current_gain, t,
                    IF t < g THEN ATTACK_COEFF ELSE RELEASE_COEFF)]_vars

\* C31: with target levels above 0 the gain starts at 1.0 and stays in
\* (0, 3]. A frame whose RMS is above 0.0001 moves it toward
\* min(target_level / RMS, 3), by 0.1 of the distance when that target is
\* below the gain and by 0.005 of it when it is above; a frame at or below
\* 0.0001 lowers a gain above 1.0 by 0.001 and leaves any other gain as it is.
C31_GainBounded ==
    /\ [](/\ p.agc_limiter.current_gain > 0
          /\ p.agc_limiter.current_gain <= AGC_MAX_GAIN)
    /\ [][LimiterStep =>
            LET g == p.agc_limiter.current_gain
                rms == Rms(LinkedMax(inp'))
                t == TargetGain(p.agc_limiter.target_level, rms)
            IN  IF rms > AGC_SILENCE_RMS
                THEN MovesBy(g, p'.agc_limiter.current_gain, t,
                             IF t < g THEN ATTACK_COEFF ELSE RELEASE_COEFF)
                ELSE p'.agc_limiter.current_gain =
                        IF g > Scale THEN g - AGC_DECAY_STEP ELSE g]_vars

\* the gain has risen above 1.0 in a frame whose target_level / RMS was
\* limited to 3
C31_Witness ==
    /\ last.op = "limiter" /\ last.count >= 2
    /\ p.agc_limiter.current_gain > Scale
    /\ Rms(LinkedMax(inp)) > AGC_SILENCE_RMS
    /\ Div(p.agc_limiter.target_level, Rms(LinkedMax(inp))) > AGC_MAX_GAIN

Pairs(rb) == {<<rb[2 * k - 1], rb[2 * k]>> : k \in 1..(Len(rb) \div 2)}

\* C33: both queues of the adapter always hold an even number of samples.
\* Every (even, odd) pair of the input queue is a left and right sample as
\* pushed, (0.01, 0.006) by push_stereo_interleaved or (0.008, 0.008) by
\* push_mono, never a right sample followed by the next left one; every
\* pair of the output queue is the processor's left and right output, the
\* left at least the right and both zero or neither. A push adds whole pairs
\* only, and no more than were given.
C33_PairsAligned ==
    /\ [](/\ Len(rb_in) % 2 = 0
          /\ Len(rb_out) % 2 = 0
          /\ Len(rb_in) <= buffer_size /\ Len(rb_out) <= buffer_size
          /\ Pairs(rb_in) \subseteq {<<100, 60>>, <<80, 80>>}
          /\ \A pr \in Pairs(rb_out) :
                /\ pr[1] >= pr[2] /\ pr[2] >= 0
                /\ (pr[1] = 0) <=> (pr[2] = 0))
    /\ [][last'.op \in PushOps /\ last' # last
          => /\ (Len(rb_in') - Len(rb_in)) % 2 = 0
             /\ Len(rb_in') - Len(rb_in) <= 2 * last'.given
             /\ SubSeq(rb_in', 1, Len(rb_in)) = rb_in]_vars

\* a push has overflowed the input queue while processed pairs that are
\* not silence wait in the output queue
C33_Witness ==
    /\ last.op \in PushOps
    /\ Len(last.in_before) + 2 * last.given > buffer_size
    /\ Len(rb_in) = buffer_size
    /\ \E pr \in Pairs(rb_out) : pr[1] > pr[2] /\ pr[2] > 0

(* ------------------------------------------------------------------ *)
(* A rejected call                                                    *)
(* ------------------------------------------------------------------ *)
\* C34: a process_frame call rejected for a channel-count mismatch leaves
\* every field of the processor (gate state and counters, fade position,
\* bypass state, crossfade position, calibration buffer, noise floor,
\* limiter gain, spectrum frame counter), every shared cell and the
\* spectrum channel as they were, and writes nothing but silence to the
\* output buffers.
C34_RejectedChangesNothing ==
    [][(/\ last'.op = "process_frame"
        /\ last'.n_in # p.channels \/ last'.n_out # p.channels)
       => /\ p' = p
          /\ cells' = cells
          /\ chan' = chan
          /\ stores' = stores
          /\ out' = [i \in 1..last'.n_out |-> ZeroFrame]]_vars

\* a call has been rejected in the middle of a fade out, between two
\* spectrum emissions, after a frame that published a volume
C34_Witness ==
    /\ last.op = "process_frame" /\ ~last.accepted
    /\ last.n_out # p.channels
    /\ p.bypass_state = "FadingOut"
    /\ p.spectrum_frame_counter > 0
    /\ cells.volume_level > 0

(* ------------------------------------------------------------------ *)
(* The control surface reads the calibration result                   *)
(* ------------------------------------------------------------------ *)
\* the step is check_calibration_result finding the mode cleared
CheckStep == gui.is_calibrating /\ ~gui'.is_calibrating

\* C35: a control surface that set calibration_mode and later reads it as
\* false then reads the result of that very run, the value process_frame
\* stored before it cleared the mode, and makes it the gate threshold.
C35_ReadsResultOfRun ==
    [][CheckStep => /\ gui'.result_read = cells.calibration_result
                    /\ cells'.gate_threshold = cells.calibration_result]_vars

\* what holds of the value read: it is the result of that run, or the value
\* the control surface read last, 0 before its first read; a value of 0
\* leaves the gate threshold as it was
C35_ReadsResultOrStale ==
    [][CheckStep =>
        /\ gui'.result_read \in {cells.calibration_result, gui.result_read}
        /\ cells'.gate_threshold = IF gui'.result_read > 0 THEN gui'.result_read
                                   ELSE cells.gate_threshold]_vars

(* ------------------------------------------------------------------ *)
(* Specification: a calibration run switched off before it completes   *)
(* ------------------------------------------------------------------ *)
\* a holder of the calibration_mode cell stores false while a run that has
\* collected MaxToggleCall values is under way
AbortCalibration ==
    /\ cells.calibration_mode
    /\ cal_run.collected = MaxToggleCall
    /\ Store([cells EXCEPT !.calibration_mode = FALSE])

NextAbort ==
    \/ ClickCalibrate
    \/ CheckCalibrationResult
    \/ AbortCalibration
    \/ /\ cells.calibration_mode
       /\ ProcessFrame([Call(<<ConstFrame(20)>>, 1, "keep", FALSE, Scale)
                           EXCEPT !.gate_threshold = cells.gate_threshold])

SpecAbort == InitCells /\ [][NextAbort]_vars

\* C36: a calibration result is published by the call that collects the
\* 300th RMS value since calibration_mode was last switched from false to
\* true, and the calibration buffer is empty whenever it is so switched.
C36_ResultFrom300OfRun ==
    /\ [][cells'.calibration_result # cells.calibration_result
          => cal_run'.collected = calibration_frames]_vars
    /\ [][(~cells.calibration_mode /\ cells'.calibration_mode)
          => p.calibration_samples = EmptySamples]_vars

(* ------------------------------------------------------------------ *)
(* Specification: a plugin host with a fixed block size               *)
(* ------------------------------------------------------------------ *)
MaxHostCycles == 24

\* block sizes in sample pairs, up to three frames
HostBlocks == 1..(3 * FRAME_SIZE)

\* the host is activated with its block size, on a fresh adapter
HostStart ==
    /\ host = NoHost
    /\ \E b \in HostBlocks : host' = [block |-> b, pc |-> "push", cycle |-> 0]
    /\ UNCHANGED <<p, cells, chan, out, inp, gated, last, quiet_run, hold, fed,
                   cal_run, gui, rb_in, rb_out, stores, aec, th>>

\* run: the input block is pushed
HostPush ==
    /\ host.block > 0 /\ host.pc = "push"
    /\ host.cycle < MaxHostCycles
    /\ rb_in' = TryPushAll(rb_in, Interleave([j \in 1..host.block |-> 100],
                                             [j \in 1..host.block |-> 60]))
    /\ last' = PushOp("push_stereo_interleaved", host.block)
    /\ host' = [host EXCEPT !.pc = "process", !.cycle = @ + 1]
    /\ UNCHANGED <<p, cells, chan, out, inp, gated, quiet_run, hold, fed, cal_run,
                   gui, rb_out, stores, aec, th>>

\* run: the queued frames are processed
HostProcess ==
    /\ host.pc = "process"
    /\ \E r \in {FrameAdapter_process_available(
                    [p |-> p, c |-> cells, chan |-> chan, rb_in |-> rb_in,
                     rb_out |-> rb_out, calls |-> 0, padded |-> FALSE,
                     stored |-> {}],
                    <<"keep", FALSE, Scale>>)} :
          /\ p' = r.p
          /\ cells' = r.c
          /\ chan' = r.chan
          /\ rb_in' = r.rb_in
          /\ rb_out' = r.rb_out
          /\ last' = AdapterOp("process_available", r.calls, r.padded)
          /\ stores' = Recorded("audio", r.stored)
    /\ host' = [host EXCEPT !.pc = "pop"]
    /\ UNCHANGED <<out, inp, gated, quiet_run, hold, fed, cal_run, gui, aec, th>>

\* run: the output block is filled
HostPop ==
    /\ host.pc = "pop"
    /\ \E r \in {FrameAdapter_pop_stereo(rb_out, host.block)} :
          /\ rb_out' = r.rb
          /\ last' = PopOp("pop_stereo", host.block, r.count, r.left, r.right)
    /\ host' = [host EXCEPT !.pc = "push"]
    /\ UNCHANGED <<p, cells, chan, out, inp, gated, quiet_run, hold, fed, cal_run,
                   gui, rb_in, stores, aec, th>>

InitHost == InitProcessor(2)

NextHost == HostStart \/ HostPush \/ HostProcess \/ HostPop

SpecHost == InitHost /\ [][NextHost]_vars

\* the cycles in which the queues fill: the input queue's remainder goes
\* through all its values within FRAME_SIZE cycles
StartUpCycles == FRAME_SIZE

\* sample pairs held by both queues
Buffered == (Len(rb_in) + Len(rb_out)) \div 2

\* C37: a host repeating (push B pairs; process_available; pop B pairs) on
\* a fresh adapter, B from 1 to three frames: every push queues all B
\* pairs, every processed frame is queued whole, a pop returns the pairs
\* that are there and from cycle FRAME_SIZE + 1 on always B of them, and at
\* the end of each cycle both queues together hold less than FRAME_SIZE
\* pairs.
C37_SteadyCycle ==
    /\ [](host.pc = "push" => Buffered < FRAME_SIZE)
    /\ [][/\ (host.pc = "push" /\ host'.pc = "process")
             => Len(rb_in') = Len(rb_in) + 2 * host.block
          /\ host.pc = "process"
             => /\ Len(rb_in') = Len(rb_in) - last'.calls * FRAME_SIZE * 2
                /\ Len(rb_out') = Len(rb_out) + last'.calls * FRAME_SIZE * 2
          /\ host.pc = "pop"
             => /\ last'.count = Min(host.block, Len(rb_out) \div 2)
                /\ \A k \in (last'.count + 1)..host.block :
                        last'.left[k] = 0 /\ last'.right[k] = 0
                /\ host.cycle > StartUpCycles => last'.count = host.block]_vars

\* past start-up a block size that is no multiple of the frame size and
\* larger than a frame is served in full, pairs waiting in both queues
C37_Witness ==
    /\ host.cycle > StartUpCycles /\ host.pc = "push"
    /\ host.block > FRAME_SIZE /\ host.block % FRAME_SIZE # 0
    /\ last.op = "pop_stereo" /\ last.count = host.block
    /\ Len(rb_in) > 0 /\ Len(rb_out) > 0

(* ------------------------------------------------------------------ *)
(* Specification: the gate's attack counter at its width              *)
(* ------------------------------------------------------------------ *)
\* samples_since_close is a u32, held here as two 16-bit halves
Half == 65536

\* u32 + n for n below 2^16: the sum modulo 2^32 and whether it wrapped
U32Add(c, n) ==
    LET lo == c.lo + n
        hi == c.hi + lo \div Half
    IN  [hi |-> hi % Half, lo |-> lo % Half, wrapped |-> hi >= Half]

\* whether the u32 is a multiple of FRAME_SIZE
WholeFrames(c) == ((c.hi % FRAME_SIZE) * (Half % FRAME_SIZE) + c.lo) % FRAME_SIZE = 0

\* the frames followed one by one at either end of the u32 range
RunWindow == 100

\* the gate decision's counting: self.samples_since_close += FRAME_SIZE as
\* u32 in a frame above the threshold or with speech, = 0 in any other
CountFrame(c, above) ==
    IF above THEN U32Add(c, FRAME_SIZE) ELSE [hi |-> 0, lo |-> 0, wrapped |-> FALSE]

\* the counter the last frame left, 0 after construction
since_close ==
    IF last.op = "count" THEN last.since_close ELSE [hi |-> 0, lo |-> 0, wrapped |-> FALSE]

Counted(c) == [op |-> "count", since_close |-> c]

\* one analysed frame, loud or quiet
CounterFrame(above) ==
    /\ \/ since_close.hi = 0 /\ since_close.lo < RunWindow * FRAME_SIZE
       \/ since_close.hi = Half - 1 /\ since_close.lo >= Half - RunWindow * FRAME_SIZE
    /\ last' = Counted(CountFrame(since_close, above))
    /\ UNCHANGED <<p, cells, chan, out, inp, gated, quiet_run, hold, fed, cal_run,
                   stores>>
    /\ UNCHANGED hostVars

\* a run of loud frames that began at 0 goes on: the counter is the number
\* of its frames times FRAME_SIZE, followed again near the top of the range
CounterLongRun ==
    /\ since_close = [hi |-> 0, lo |-> 0, wrapped |-> FALSE]
    /\ \E lo \in (Half - RunWindow * FRAME_SIZE)..(Half - 1) :
          /\ WholeFrames([hi |-> Half - 1, lo |-> lo])
          /\ last' = Counted([hi |-> Half - 1, lo |-> lo, wrapped |-> FALSE])
    /\ UNCHANGED <<p, cells, chan, out, inp, gated, quiet_run, hold, fed, cal_run,
                   stores>>
    /\ UNCHANGED hostVars

NextCounter ==
    \/ \E above \in BOOLEAN : CounterFrame(above)
    \/ CounterLongRun

SpecCounter == Init /\ [][NextCounter]_vars

\* C38: samples_since_close never wraps, however long the run of frames
\* above the threshold.
C38_AttackCounterNeverWraps == ~since_close.wrapped

\* what holds of the release counter: it is counted in quiet frames while
\* the gate is open and stops FRAME_SIZE past the release time at most
C38_ReleaseCounterBounded == p.samples_since_open <= release_samples + FRAME_SIZE

(* ------------------------------------------------------------------ *)
(* The tracker's ring buffer                                          *)
(* ------------------------------------------------------------------ *)
\* the window slots of the k most recent of n updates: update m writes
\* window[(m - 1) % 300]
RecentSlots(n, k) == {(m - 1) % FLOOR_WINDOW : m \in (n - k + 1)..n}

\* C39: after any number n of updates write_idx is n modulo 300, within
\* 0..299, and count is min(n, 300); the indices the minimum search reads
\* are within 0..299 and are the slots of the min(count, 30) most recent
\* updates, each holding the value of its update; the floor is the initial
\* 0.01 while fewer than 10 values have been fed.
C39_RingInBounds ==
    LET t == p.noise_floor_tracker
        n == Len(FloorFed)
        k == Min(t.count, FLOOR_RECENT)
    IN  /\ t.write_idx \in 0..(FLOOR_WINDOW - 1)
        /\ t.write_idx = n % FLOOR_WINDOW
        /\ t.count = Min(n, FLOOR_WINDOW)
        /\ FloorReadIdx(t.write_idx, t.count) \subseteq 0..(FLOOR_WINDOW - 1)
        /\ FloorReadIdx(t.write_idx, t.count) = RecentSlots(n, k)
        /\ \A m \in (n - k + 1)..n :
                t.window[((m - 1) % FLOOR_WINDOW) + 1] = FloorFed[m]
        /\ n < FLOOR_WARMUP => t.current_floor = INITIAL_FLOOR

\* the buffer has gone round and the 30 slots read lie across its end
C39_Witness ==
    /\ Len(FloorFed) > FLOOR_WINDOW
    /\ p.noise_floor_tracker.count = FLOOR_WINDOW
    /\ p.noise_floor_tracker.write_idx \in 1..(FLOOR_RECENT - 1)
    /\ p.noise_floor_tracker.current_floor # INITIAL_FLOOR

====
